---------------------------- MODULE Spec2Model ----------------------------
(***************************************************************************)
(* filedress: the `clean` command (src/src/commands/clean.rs), over a tree *)
(* of files the `add` and `remove` commands, and the tree building of the  *)
(* `structure` command (src/src/commands/structure.rs).                    *)
(*                                                                         *)
(* Text is modelled as a sequence of one-character strings, so that the    *)
(* string operations of the code (find, starts_with, trim_end, lines,      *)
(* join, replace) are computed position by position as the code does.      *)
(***************************************************************************)
EXTENDS Naturals, Sequences, FiniteSets, TLC

(***************************************************************************)
(* Bounds of the model.                                                    *)
(***************************************************************************)
MaxFrags == 3
MaxLines == 3
MaxFiles == 2
MaxRuns  == 2

(***************************************************************************)
(* State of a sequence of `clean` invocations over a set of matched files. *)
(* Files are numbered in the order the walker yields them.                 *)
(***************************************************************************)
VARIABLES
    disk,            \* disk[f]: the bytes of file f
    ext,             \* ext[f]: the extension of file f
    budget,          \* number of `clean` invocations still to come
    pc,              \* "idle", "walk", "scan", "done" (Ok) or "failed" (Err)
    cur,             \* the entry of the walk being processed, 0 before the first
    original_lines,  \* per-file locals of the loop body
    new_lines,
    line_num,
    flags,           \* the three carry flags
    last,            \* history: the last iteration of the per-line loop
    disk0,           \* history: the disk when the current run started
    reads,           \* history: read_to_string calls per file in this run
    writes,          \* history: the texts passed to fs::write per file in this run
    outcome,         \* history: what this run reported per file
    verdicts,        \* history: has_changed of each completed processing of a file
    args,            \* the arguments of the commands (cli.rs, Args)
    path,            \* path[f]: the names from the target directory down to file f
    hist,            \* history: the commands started, with the disk they found
    lines,           \* build_tree: the input lines of `structure`
    indent_width,    \* build_tree: args.indent
    consumed,        \* build_tree: the number of lines the for loop has taken
    nodes,           \* build_tree: the nodes in creation order, nodes[1] the root
    stack,           \* build_tree: the stack of node pointers
    bpc,             \* build_tree: "idle", "building", "built" or "panicked"
    parsed           \* history: the last call of parse_line

(***************************************************************************)
(* Rust string primitives used by clean.rs.                                *)
(***************************************************************************)
\* char::is_whitespace, restricted to the characters of the model
WS == {" ", "\t", "\r", "\n"}

Min(S) == CHOOSE x \in S : \A y \in S : x <= y

\* s[from..] with a 1-based index
Tail_(s, from) == SubSeq(s, from, Len(s))

\* str::starts_with
StartsWith(s, p) == Len(p) <= Len(s) /\ SubSeq(s, 1, Len(p)) = p

\* str::find: 1-based index of the first occurrence of p, 0 for None
Find(s, p) ==
    LET hits == {i \in 1..(Len(s) + 1 - Len(p)) : SubSeq(s, i, i + Len(p) - 1) = p}
    IN  IF Len(p) > Len(s) \/ hits = {} THEN 0 ELSE Min(hits)

\* str::matches(p).count(): non-overlapping occurrences, left to right
RECURSIVE CountMatches(_, _)
CountMatches(s, p) ==
    LET i == Find(s, p)
    IN  IF i = 0 THEN 0 ELSE 1 + CountMatches(Tail_(s, i + Len(p)), p)

\* str::trim_end
RECURSIVE TrimEnd(_)
TrimEnd(s) ==
    IF s = <<>> THEN s
    ELSE IF s[Len(s)] \in WS THEN TrimEnd(SubSeq(s, 1, Len(s) - 1)) ELSE s

\* str::trim_start
RECURSIVE TrimStart(_)
TrimStart(s) ==
    IF s = <<>> THEN s
    ELSE IF s[1] \in WS THEN TrimStart(Tail_(s, 2)) ELSE s

\* str::trim
Trim(s) == TrimStart(TrimEnd(s))

\* str::trim_end_matches('\n')
RECURSIVE TrimEndNewlines(_)
TrimEndNewlines(s) ==
    IF s = <<>> THEN s
    ELSE IF s[Len(s)] = "\n" THEN TrimEndNewlines(SubSeq(s, 1, Len(s) - 1)) ELSE s

\* str::replace("\r\n", "\n")
RECURSIVE ReplaceCrLf(_)
ReplaceCrLf(s) ==
    IF s = <<>> THEN s
    ELSE IF Len(s) >= 2 /\ s[1] = "\r" /\ s[2] = "\n"
         THEN <<"\n">> \o ReplaceCrLf(Tail_(s, 3))
         ELSE <<s[1]>> \o ReplaceCrLf(Tail_(s, 2))

\* [String]::join("\n")
RECURSIVE JoinLines(_)
JoinLines(ls) ==
    IF ls = <<>> THEN <<>>
    ELSE IF Len(ls) = 1 THEN ls[1]
    ELSE ls[1] \o <<"\n">> \o JoinLines(Tail_(ls, 2))

\* str::lines(): split at "\n", drop one "\r" before it; a final line ending
\* is optional and yields no extra empty line
StripCr(l) == IF l # <<>> /\ l[Len(l)] = "\r" THEN SubSeq(l, 1, Len(l) - 1) ELSE l

RECURSIVE Lines(_)
Lines(text) ==
    IF text = <<>> THEN <<>>
    ELSE LET i == Find(text, <<"\n">>)
         IN  IF i = 0 THEN <<text>>
             ELSE <<StripCr(SubSeq(text, 1, i - 1))>> \o Lines(Tail_(text, i + 1))


(***************************************************************************)
(* Comment style of a file extension (the match in clean, lines 72-87).    *)
(* The extension "" is the empty extension of a name that ends with a dot;  *)
(* a path without extension takes the same default arm.                    *)
(***************************************************************************)
CLikeExts  == {"c", "cpp", "h", "hpp", "cs", "go", "java", "rs", "swift", "kt"}
JsExts     == {"js", "ts", "jsx", "tsx"}
CssExts    == {"css", "scss", "less"}
MarkupExts == {"html", "svelte", "vue", "xml", "md"}
ScriptExts == {"py", "rb", "sh", "bash", "pl", "Dockerfile", "yaml", "yml", "toml", "ps1"}

Slashes    == <<"/", "/">>
Hash       == <<"#">>
BlockOpen  == <<"/", "*">>
BlockClose == <<"*", "/">>
HtmlOpen   == <<"<", "!", "-", "-">>
HtmlClose  == <<"-", "-", ">">>
TripleDouble == <<"\"", "\"", "\"">>
TripleSingle == <<"'", "'", "'">>
PathWord   == <<" ", "P", "a", "t", "h", ":">>

\* faulty variant: the match has no default arm and the CSS family has no
\* block end
Style_Partial(file_ext) ==
    IF file_ext \in CLikeExts \cup JsExts THEN [single |-> Slashes, bstart |-> BlockOpen, bend |-> BlockClose]
    ELSE IF file_ext \in CssExts THEN [single |-> <<>>, bstart |-> BlockOpen, bend |-> <<>>]
    ELSE IF file_ext \in MarkupExts THEN [single |-> <<>>, bstart |-> HtmlOpen, bend |-> HtmlClose]
    ELSE IF file_ext \in ScriptExts THEN [single |-> Hash, bstart |-> <<>>, bend |-> <<>>]
    ELSE [single |-> <<>>, bstart |-> <<>>, bend |-> <<>>]

Style(file_ext) ==
    IF file_ext \in CLikeExts THEN [single |-> Slashes, bstart |-> BlockOpen, bend |-> BlockClose]
    ELSE IF file_ext \in JsExts THEN [single |-> Slashes, bstart |-> BlockOpen, bend |-> BlockClose]
    ELSE IF file_ext \in CssExts THEN [single |-> <<>>, bstart |-> BlockOpen, bend |-> BlockClose]
    ELSE IF file_ext \in MarkupExts THEN [single |-> <<>>, bstart |-> HtmlOpen, bend |-> HtmlClose]
    ELSE IF file_ext \in ScriptExts THEN [single |-> Hash, bstart |-> <<>>, bend |-> <<>>]
    ELSE [single |-> Slashes, bstart |-> <<>>, bend |-> <<>>]

\* is_python (line 96)
IsPython(file_ext) == file_ext = "py"

\* faulty variant: the header is looked for with the single-line prefix only
IsPathHeader_SingleOnly(line, style) ==
    StartsWith(Trim(line), style.single \o PathWord)

\* the path-header test of line 105
IsPathHeader(line, style) ==
    LET trimmed_line == Trim(line)
    IN  \/ StartsWith(trimmed_line, style.single \o PathWord)
        \/ StartsWith(trimmed_line, style.bstart \o PathWord)

(***************************************************************************)
(* clean_line_of_code (lines 14-57).                                       *)
(***************************************************************************)
\* faulty variant: the backslash is consumed without the character it escapes
EscapeSkip_BackslashOnly(line, idx) == idx + 1

\* lines 31-37: the index after a backslash at idx and the character it escapes
EscapeSkip(line, idx) == IF idx + 1 <= Len(line) THEN idx + 2 ELSE idx + 1

\* faulty variant: quotes are not tracked
ToggleQuotes_Off(c, sq, dq) == [sq |-> sq, dq |-> dq]

\* faulty variant: a quote toggles its flag whatever the other flag is
ToggleQuotes_NoGuard(c, sq, dq) ==
    IF c = "'" THEN [sq |-> ~sq, dq |-> dq]
    ELSE IF c = "\"" THEN [sq |-> sq, dq |-> ~dq]
    ELSE [sq |-> sq, dq |-> dq]

\* lines 40-44: the quote flags after the character c
ToggleQuotes(c, sq, dq) ==
    IF c = "'" /\ ~dq THEN [sq |-> ~sq, dq |-> dq]
    ELSE IF c = "\"" /\ ~sq THEN [sq |-> sq, dq |-> ~dq]
    ELSE [sq |-> sq, dq |-> dq]

\* faulty variant: a double quote the previous line left open is still open
StartQuotes_Carried ==
    [sq |-> FALSE,
     dq |-> last.valid /\ CountMatches(last.line, <<"\"">>) % 2 = 1]

\* lines 19-20: the quote flags when the scan of a line starts
StartQuotes == [sq |-> FALSE, dq |-> FALSE]

\* the while loop of lines 23-54: the 1-based index at which the comment
\* prefix is detected, 0 when the loop runs off the end of the line
RECURSIVE CommentStart(_, _, _, _, _)
CommentStart(line, comment_prefix, idx, sq, dq) ==
    IF idx > Len(line) THEN 0
    ELSE IF line[idx] = "\\" THEN
        CommentStart(line, comment_prefix, EscapeSkip(line, idx), sq, dq)
    ELSE LET q == ToggleQuotes(line[idx], sq, dq)
         IN  IF ~q.sq /\ ~q.dq /\ StartsWith(Tail_(line, idx), comment_prefix)
             THEN idx
             ELSE CommentStart(line, comment_prefix, idx + 1, q.sq, q.dq)

clean_line_of_code(line, comment_prefix) ==
    IF comment_prefix = <<>> THEN TrimEnd(line)
    ELSE LET p == CommentStart(line, comment_prefix, 1, StartQuotes.sq, StartQuotes.dq)
         IN  IF p = 0 THEN TrimEnd(line) ELSE TrimEnd(SubSeq(line, 1, p - 1))

(***************************************************************************)
(* One iteration of the per-line loop of clean (lines 98-176).             *)
(* The carry flags are a record [blk, td, ts]:                             *)
(*   blk = in_multi_line_block_comment                                     *)
(*   td  = in_python_triple_double_quote_string                            *)
(*   ts  = in_python_triple_single_quote_string                            *)
(***************************************************************************)
NoFlags == [blk |-> FALSE, td |-> FALSE, ts |-> FALSE]

\* faulty variant: a flag flips whenever its delimiter occurs
PythonToggle_AnyCount(line, st) ==
    [st EXCEPT !.td = IF CountMatches(line, TripleDouble) > 0 THEN ~st.td ELSE st.td,
               !.ts = IF CountMatches(line, TripleSingle) > 0 THEN ~st.ts ELSE st.ts]

\* lines 112-123: the triple-quote flags after the line
PythonToggle(line, st) ==
    LET num_triple_double == CountMatches(line, TripleDouble)
        num_triple_single == CountMatches(line, TripleSingle)
    IN  [st EXCEPT !.td = IF num_triple_double % 2 # 0 THEN ~st.td ELSE st.td,
                   !.ts = IF num_triple_single % 2 # 0 THEN ~st.ts ELSE st.ts]

\* line 126: the line is pushed verbatim
PythonPreserves(line, st) ==
    \/ st.td \/ st.ts
    \/ CountMatches(line, TripleDouble) > 0
    \/ CountMatches(line, TripleSingle) > 0

\* lines 146-157: the while loop that removes block comments from the
\* remaining segment; content is current_processed_line_content
RECURSIVE BlockLoop(_, _, _, _)
BlockLoop(content, remaining, bstart, bend) ==
    LET start_idx == Find(remaining, bstart)
    IN  IF start_idx = 0 THEN [content |-> content, remaining |-> remaining, blk |-> FALSE]
        ELSE LET content2 == content \o SubSeq(remaining, 1, start_idx - 1)
                 rest     == Tail_(remaining, start_idx + Len(bstart))
                 end_idx  == Find(rest, bend)
             IN  IF end_idx = 0
                 THEN [content |-> content2, remaining |-> <<>>, blk |-> TRUE]
                 ELSE BlockLoop(content2, Tail_(rest, end_idx + Len(bend)), bstart, bend)

\* faulty variant: the text kept from a closing line starts at the terminator
BlockContinuation_FromTerminator(line, bend) ==
    LET end_idx == Find(line, bend)
    IN  IF end_idx = 0
        THEN [skip |-> TRUE, content |-> <<>>, remaining |-> <<>>]
        ELSE [skip |-> FALSE, content |-> Tail_(line, end_idx), remaining |-> <<>>]

\* lines 135-143: a line met inside an open block comment. skip = the
\* `continue` of line 141
BlockContinuation(line, bend) ==
    LET end_idx == Find(line, bend)
    IN  IF end_idx = 0
        THEN [skip |-> TRUE, content |-> <<>>, remaining |-> <<>>]
        ELSE [skip |-> FALSE, content |-> Tail_(line, end_idx + Len(bend)),
              remaining |-> <<>>]

\* faulty variant: a line is pushed for every input line, empty or not
EmitCode_Placeholder(content, single) ==
    IF single # <<>> THEN <<clean_line_of_code(content, single)>>
    ELSE <<TrimEnd(content)>>

\* faulty variant: the code line is trimmed at both ends
EmitCode_Trim(content, single) ==
    LET cleaned == IF single # <<>> THEN Trim(clean_line_of_code(content, single))
                   ELSE Trim(content)
    IN  IF cleaned # <<>> THEN <<cleaned>> ELSE <<>>

\* lines 163-175: the line pushed after block handling, if any
EmitCode(content, single) ==
    LET cleaned == IF single # <<>> THEN clean_line_of_code(content, single)
                   ELSE TrimEnd(content)
    IN  IF cleaned # <<>> THEN <<cleaned>> ELSE <<>>

\* lines 133-159 followed by 163-175
BlockAndCode(line, style, st) ==
    IF style.bstart # <<>> /\ style.bend # <<>> THEN
        LET cont == IF st.blk THEN BlockContinuation(line, style.bend)
                    ELSE [skip |-> FALSE, content |-> <<>>, remaining |-> line]
        IN  IF cont.skip THEN [emit |-> <<>>, st |-> st]
            ELSE LET r == BlockLoop(cont.content, cont.remaining, style.bstart, style.bend)
                 IN  [emit |-> EmitCode(r.content \o r.remaining, style.single),
                      st   |-> [st EXCEPT !.blk = r.blk]]
    ELSE [emit |-> EmitCode(line, style.single), st |-> st]

\* faulty variant: the path-header test comes after the triple-quote and
\* block-comment handling, which a header inside an open region never passes
ProcessLine_HeaderLate(line, file_ext, st) ==
    LET style == Style(file_ext)
    IN  IF IsPython(file_ext) /\ PythonPreserves(line, st)
             THEN [emit |-> <<line>>, st |-> PythonToggle(line, st)]
        ELSE IF st.blk \/ ~IsPathHeader(line, style)
             THEN BlockAndCode(line, style, st)
        ELSE [emit |-> <<line>>, st |-> st]

\* the whole loop body: emit is the list of lines pushed to new_lines
ProcessLine(line, file_ext, st) ==
    LET style == Style(file_ext)
    IN  IF IsPathHeader(line, style) THEN [emit |-> <<line>>, st |-> st]
        ELSE IF IsPython(file_ext) /\ PythonPreserves(line, st)
             THEN [emit |-> <<line>>, st |-> PythonToggle(line, st)]
        ELSE IF IsPython(file_ext)
             THEN BlockAndCode(line, style, PythonToggle(line, st))
        ELSE BlockAndCode(line, style, st)

(***************************************************************************)
(* The end of the per-file body (lines 178-197).                           *)
(***************************************************************************)
Normalized(ls) == TrimEndNewlines(ReplaceCrLf(JoinLines(ls)))

\* faulty variant: every file is found changed
HasChanged_Always(original_lines_, new_lines_) == TRUE

HasChanged(original_lines_, new_lines_) ==
    Normalized(new_lines_) # Normalized(original_lines_)

\* faulty variant: no newline is put after the normalised text
FinalContent_Bare(new_lines_) == Normalized(new_lines_)

FinalContent(new_lines_) ==
    IF Normalized(new_lines_) = <<>> THEN <<>>
    ELSE Normalized(new_lines_) \o <<"\n">>

\* the state of build_tree (src/src/commands/structure.rs)
svars == <<lines, indent_width, consumed, nodes, stack, bpc, parsed>>

vars == <<disk, ext, budget, pc, cur, original_lines, new_lines, line_num, flags,
          last, disk0, reads, writes, outcome, verdicts, args, path, hist, svars>>

\* the arguments and the tree do not change while commands run
opts == <<args, path>>

\* faulty variant: max_depth is not given to the walker
Yielded_AnyDepth(f) == ext[f] \in args.exts

\* create_file_walker (utils.rs, lines 29-46): the entry is within max_depth
\* and its extension is one of the resolved extensions
Yielded(f) ==
    /\ args.has_depth => Len(path[f]) <= args.depth
    /\ ext[f] \in args.exts

Files == DOMAIN disk

NoLast == [valid |-> FALSE, line |-> <<>>, pre |-> NoFlags, emit |-> <<>>]

StartClean ==
    /\ pc \in {"idle", "done", "failed"}
    /\ budget > 0
    /\ budget' = budget - 1
    /\ pc' = "walk"
    /\ cur' = 0
    /\ original_lines' = <<>>
    /\ new_lines' = <<>>
    /\ line_num' = 0
    /\ flags' = NoFlags
    /\ last' = NoLast
    /\ disk0' = disk
    /\ reads' = [f \in Files |-> 0]
    /\ writes' = [f \in Files |-> <<>>]
    /\ outcome' = [f \in Files |-> "none"]
    /\ hist' = Append(hist, [cmd |-> "clean", disk |-> disk])
    /\ UNCHANGED <<disk, ext, verdicts>>
    /\ UNCHANGED opts
    /\ UNCHANGED svars

\* faulty variant: the carry flags are not created anew for the file
ReadFile_KeepFlags ==
    /\ pc = "walk"
    /\ cur < Len(disk)
    /\ Yielded(cur + 1)
    /\ cur' = cur + 1
    /\ reads' = [reads EXCEPT ![cur + 1] = @ + 1]
    /\ original_lines' = Lines(disk[cur + 1])
    /\ new_lines' = <<>>
    /\ line_num' = 0
    /\ last' = NoLast
    /\ pc' = "scan"
    /\ UNCHANGED <<disk, ext, budget, disk0, writes, outcome, verdicts, flags>>
    /\ UNCHANGED <<args, path, hist>>
    /\ UNCHANGED svars

\* lines 65-96: the next entry is read and the per-file locals are created
ReadFile ==
    /\ pc = "walk"
    /\ cur < Len(disk)
    /\ Yielded(cur + 1)
    /\ cur' = cur + 1
    /\ reads' = [reads EXCEPT ![cur + 1] = @ + 1]
    /\ original_lines' = Lines(disk[cur + 1])
    /\ new_lines' = <<>>
    /\ line_num' = 0
    /\ flags' = NoFlags
    /\ last' = NoLast
    /\ pc' = "scan"
    /\ UNCHANGED <<disk, ext, budget, disk0, writes, outcome, verdicts>>
    /\ UNCHANGED <<args, path, hist>>
    /\ UNCHANGED svars

\* line 68: read_to_string fails and `?` returns the error from clean
ReadFail ==
    /\ pc = "walk"
    /\ cur < Len(disk)
    /\ Yielded(cur + 1)
    /\ cur' = cur + 1
    /\ reads' = [reads EXCEPT ![cur + 1] = @ + 1]
    /\ outcome' = [outcome EXCEPT ![cur + 1] = "error"]
    /\ pc' = "failed"
    /\ UNCHANGED <<disk, ext, budget, original_lines, new_lines, line_num, flags,
                   last, disk0, writes, verdicts>>
    /\ UNCHANGED <<args, path, hist>>
    /\ UNCHANGED svars

\* lines 98-176: one iteration of the per-line loop
ScanLine ==
    /\ pc = "scan"
    /\ line_num < Len(original_lines)
    /\ LET line == original_lines[line_num + 1]
           r    == ProcessLine(line, ext[cur], flags)
       IN  /\ new_lines' = new_lines \o r.emit
           /\ flags' = r.st
           /\ last' = [valid |-> TRUE, line |-> line, pre |-> flags, emit |-> r.emit]
    /\ line_num' = line_num + 1
    /\ UNCHANGED <<disk, ext, budget, pc, cur, original_lines, disk0, reads, writes,
                   outcome, verdicts>>
    /\ UNCHANGED <<args, path, hist>>
    /\ UNCHANGED svars

\* lines 195-196: nothing changed, the file is not written
FinishSkip ==
    /\ pc = "scan"
    /\ line_num = Len(original_lines)
    /\ ~HasChanged(original_lines, new_lines)
    /\ outcome' = [outcome EXCEPT ![cur] = "skipped"]
    /\ verdicts' = [verdicts EXCEPT ![cur] = Append(@, FALSE)]
    /\ pc' = "walk"
    /\ UNCHANGED <<disk, ext, budget, cur, original_lines, new_lines, line_num, flags,
                   last, disk0, reads, writes>>
    /\ UNCHANGED <<args, path, hist>>
    /\ UNCHANGED svars

\* lines 187-194: the file is replaced by the final content
FinishWrite ==
    /\ pc = "scan"
    /\ line_num = Len(original_lines)
    /\ HasChanged(original_lines, new_lines)
    /\ writes' = [writes EXCEPT ![cur] = Append(@, FinalContent(new_lines))]
    /\ disk' = [disk EXCEPT ![cur] = FinalContent(new_lines)]
    /\ outcome' = [outcome EXCEPT ![cur] = "cleaned"]
    /\ verdicts' = [verdicts EXCEPT ![cur] = Append(@, TRUE)]
    /\ pc' = "walk"
    /\ UNCHANGED <<ext, budget, cur, original_lines, new_lines, line_num, flags,
                   last, disk0, reads>>
    /\ UNCHANGED <<args, path, hist>>
    /\ UNCHANGED svars

\* line 193: fs::write fails and `?` returns the error from clean; the file
\* is taken to keep its bytes
FinishWriteFail ==
    /\ pc = "scan"
    /\ line_num = Len(original_lines)
    /\ HasChanged(original_lines, new_lines)
    /\ writes' = [writes EXCEPT ![cur] = Append(@, FinalContent(new_lines))]
    /\ outcome' = [outcome EXCEPT ![cur] = "error"]
    /\ pc' = "failed"
    /\ UNCHANGED <<disk, ext, budget, cur, original_lines, new_lines, line_num, flags,
                   last, disk0, reads, verdicts>>
    /\ UNCHANGED <<args, path, hist>>
    /\ UNCHANGED svars

\* lines 199-200: the walk is exhausted, clean returns Ok
EndClean ==
    /\ pc = "walk"
    /\ cur = Len(disk)
    /\ pc' = "done"
    /\ UNCHANGED <<disk, ext, budget, cur, original_lines, new_lines, line_num, flags,
                   last, disk0, reads, writes, outcome, verdicts>>
    /\ UNCHANGED <<args, path, hist>>
    /\ UNCHANGED svars

Next ==
    \/ StartClean
    \/ ReadFile
    \/ ReadFail
    \/ ScanLine
    \/ FinishSkip
    \/ FinishWrite
    \/ FinishWriteFail
    \/ EndClean

(***************************************************************************)
(* The `structure` command (src/src/commands/structure.rs): parse_line and *)
(* build_tree.  A character of an input line is a one-character string or  *)
(* one of the four names below, each of which stands for one tree-drawing   *)
(* character, three bytes long in UTF-8.                                    *)
(***************************************************************************)
MaxEntries == 3
MaxIndent  == 2

Vert  == "VERT"     \* U+2502
Tee   == "TEE"      \* U+251C
Elbow == "ELBOW"    \* U+2514
Horiz == "HORIZ"    \* U+2500

\* the characters of the string literal of line 36
TreeDrawing == {Vert, Tee, Elbow, Horiz}

\* char::len_utf8
len_utf8(c) == IF c \in TreeDrawing THEN 3 ELSE 1

\* the number of bytes of the first n characters of s
RECURSIVE ByteLen(_, _)
ByteLen(s, n) == IF n = 0 THEN 0 ELSE ByteLen(s, n - 1) + len_utf8(s[n])

\* str::is_char_boundary for a byte index
is_char_boundary(s, b) == \E n \in 0..Len(s) : ByteLen(s, n) = b

\* s[b..] for a byte index b that is a character boundary
SliceFrom(s, b) ==
    LET n == CHOOSE k \in 0..Len(s) : ByteLen(s, k) = b
    IN  Tail_(s, n + 1)

\* lines 34-37: the number of leading characters that are whitespace or
\* tree-drawing characters
RECURSIVE indent_chars(_)
indent_chars(line) ==
    IF line = <<>> THEN 0
    ELSE IF line[1] \in WS \cup TreeDrawing THEN 1 + indent_chars(Tail_(line, 2))
    ELSE 0

\* parse_line (lines 30-42).  The division of line 38 panics when
\* indent_width is 0, and the slice of line 39 takes the count of characters
\* as a byte index and panics when that is no character boundary.
parse_line(line, width) ==
    IF Trim(line) = <<>> THEN [kind |-> "None", level |-> 0, name |-> <<>>]
    ELSE IF width = 0 THEN [kind |-> "panic", level |-> 0, name |-> <<>>]
    ELSE IF ~is_char_boundary(line, indent_chars(line))
         THEN [kind |-> "panic", level |-> 0, name |-> <<>>]
    ELSE [kind  |-> "Some",
          level |-> indent_chars(line) \div width,
          name  |-> TrimStart(SliceFrom(line, indent_chars(line)))]

\* usize::MAX, the level of the root: it is above the level of every line,
\* which is at most u32::MAX; here the largest integer TLC has
usize_MAX == 2147483647

RootName == <<"R", "O", "O", "T">>

\* Node::new_root (lines 19-28); children holds the numbers of the children
new_root ==
    [name |-> RootName, level |-> usize_MAX, relative_path |-> <<>>, children |-> <<>>]

\* the number of the root, the node of lines 45-46 the stack starts with
Root == 1

\* faulty variant: the stack is popped only above a greater level
PopStack_Greater(st, level) ==
    LET Pop[s \in Seq(Nat)] ==
            IF Len(s) > 1 /\ nodes[s[Len(s)]].level > level
            THEN Pop[SubSeq(s, 1, Len(s) - 1)] ELSE s
    IN  Pop[st]

\* the while loop of lines 52-54
PopStack(st, level) ==
    LET Pop[s \in Seq(Nat)] ==
            IF Len(s) > 1 /\ nodes[s[Len(s)]].level >= level
            THEN Pop[SubSeq(s, 1, Len(s) - 1)] ELSE s
    IN  Pop[st]

\* PathBuf::join: an absolute name replaces the path (line 58)
join(base, name) ==
    IF name # <<>> /\ name[1] = "/" THEN <<name>> ELSE Append(base, name)

NoParse == [valid |-> FALSE, line |-> <<>>, result |-> [kind |-> "None", level |-> 0, name |-> <<>>]]

\* the commands other than `structure` do not call build_tree
NoStructure ==
    /\ lines = <<>>
    /\ indent_width = 4
    /\ consumed = 0
    /\ nodes = <<new_root>>
    /\ stack = <<Root>>
    /\ bpc = "idle"
    /\ parsed = NoParse

(***************************************************************************)
(* Inputs.  A line is a concatenation of fragments; a file is a list of    *)
(* lines joined by a line ending.                                          *)
(***************************************************************************)
Exts == {"rs", "css", "html", "py", "txt"}

Lf   == <<"\n">>
CrLf == <<"\r", "\n">>

CommonFrags == {<<"a">>, <<" ">>, <<"\"">>, <<"'">>, <<"\\">>, PathWord}

LineFrags(e) ==
    CommonFrags \cup
    (IF e = "rs" THEN {Slashes, BlockOpen, BlockClose}
     ELSE IF e = "css" THEN {BlockOpen, BlockClose}
     ELSE IF e = "html" THEN {HtmlOpen, HtmlClose}
     ELSE IF e = "py" THEN {Hash, TripleDouble, TripleSingle}
     ELSE {Slashes})

RECURSIVE FragLines(_, _)
FragLines(F, n) ==
    IF n = 0 THEN {<<>>}
    ELSE LET S == FragLines(F, n - 1) IN S \cup {l \o f : l \in S, f \in F}

RECURSIVE JoinWith(_, _)
JoinWith(ls, eol) ==
    IF ls = <<>> THEN <<>>
    ELSE IF Len(ls) = 1 THEN ls[1]
    ELSE ls[1] \o eol \o JoinWith(Tail_(ls, 2), eol)

MakeText(ls, eol, final) ==
    IF ls = <<>> THEN <<>>
    ELSE JoinWith(ls, eol) \o (IF final THEN eol ELSE <<>>)

\* the state before the first command, but for the arguments and the tree
InitCore(texts, exts, runs) ==
    /\ disk = texts
    /\ ext = exts
    /\ budget = runs
    /\ pc = "idle"
    /\ cur = 0
    /\ original_lines = <<>>
    /\ new_lines = <<>>
    /\ line_num = 0
    /\ flags = NoFlags
    /\ last = NoLast
    /\ disk0 = texts
    /\ reads = [f \in DOMAIN texts |-> 0]
    /\ writes = [f \in DOMAIN texts |-> <<>>]
    /\ outcome = [f \in DOMAIN texts |-> "none"]
    /\ verdicts = [f \in DOMAIN texts |-> <<>>]
    /\ hist = <<>>

\* the matched files f, ff, ... lie in the target directory, and no depth
\* is given
InitRest(texts, exts, runs) ==
    /\ InitCore(texts, exts, runs)
    /\ NoStructure
    /\ args = [directory |-> <<>>, exts |-> {exts[f] : f \in DOMAIN exts},
               up |-> 0, has_depth |-> FALSE, depth |-> 0, force |-> FALSE]
    /\ path = [f \in DOMAIN texts |-> <<[i \in 1..f |-> "f"]>>]

\* the examples the specification of the scanner names
ExampleBlock ==
    <<<<"/", "*", " ", "s", "t", "a", "r", "t">>,
      <<"s", "t", "i", "l", "l", " ", "c", "o", "m", "m", "e", "n", "t">>,
      <<"e", "n", "d", " ", "*", "/", " ", "c", "o", "d", "e", "_", "h", "e", "r", "e">>>>

ExampleUrl ==
    <<"l", "e", "t", " ", "u", "r", "l", " ", "=", " ", "\"", "h", "t", "t", "p", ":", "/", "/", "x", ".", "c", "o", "m", "/", "#", "a", "\"", ";", " ", "/", "/", " ", "n", "o", "t", "e">>

ExampleEscaped ==
    <<"\"", "a", " ", "\\", "\"", " ", "b", "\"", " ", "/", "/", " ", "c", "o", "m", "m", "e", "n", "t">>

ExampleFormat ==
    <<"p", "r", "i", "n", "t", "(", "f", "\"", "{", "d", "[", "'", "k", "'", "]", "}",
      "\"", ")", " ", "#", " ", "c">>

ExampleApostrophe ==
    <<"\"", "i", "t", "'", "s", "\"", " ", "/", "/", " ", "c">>

\* examples of one line, and of several lines
LineExamples ==
    {[e |-> "rs", l |-> ExampleApostrophe]} \cup
    {[e |-> "rs", l |-> ExampleUrl],
     [e |-> "txt", l |-> ExampleUrl],
     [e |-> "rs", l |-> ExampleEscaped],
     [e |-> "txt", l |-> ExampleEscaped],
     [e |-> "py", l |-> ExampleFormat]}

\* a path header that holds a docstring delimiter, met inside a docstring
ExampleHeaderInside ==
    <<<<"\"", "\"", "\"">>,
      <<"#", " ", "P", "a", "t", "h", ":", "\"", "\"", "\"">>,
      <<"a", " ", "#", " ", "c">>>>

FileExamples ==
    {[e |-> "rs", ls |-> ExampleBlock],
     [e |-> "css", ls |-> ExampleBlock],
     [e |-> "py", ls |-> ExampleHeaderInside]}

\* one file of one line, every concatenation of at most MaxFrags fragments
InitLine ==
    \/ \E e \in Exts : \E l \in FragLines(LineFrags(e), MaxFrags) :
           InitRest(<<MakeText(<<l>>, Lf, TRUE)>>, <<e>>, 1)
    \/ \E x \in LineExamples : InitRest(<<MakeText(<<x.l>>, Lf, TRUE)>>, <<x.e>>, 1)

SpecLine == InitLine /\ [][Next]_vars

\* the lines a file of each extension is built from
Pool_rs_code    == <<"a">>
Pool_rs_comment == <<"a", " ", "/", "/", " ", "c">>
Pool_rs_open    == <<"/", "*", " ", "c">>
Pool_rs_close   == <<"c", " ", "*", "/", " ", "a">>
Pool_py_comment == <<"#", " ", "c">>

Pool_rs ==
    {<<"/", "/", " ", "P", "a", "t", "h", ":", "a">>,
     <<"a", " ", "/", "/", " ", "c">>,
     <<"/", "*", " ", "c">>,
     <<"c", " ", "*", "/", " ", "a">>,
     <<"a">>,
     <<>>}

Pool_css ==
    {<<"/", "*", " ", "P", "a", "t", "h", ":", "a", " ", "*", "/">>,
     <<"a", " ", "/", "*", " ", "c", " ", "*", "/">>,
     <<"/", "*", " ", "c">>,
     <<"c", " ", "*", "/", " ", "a">>,
     <<"a">>,
     <<>>}

Pool_html ==
    {<<"<", "!", "-", "-", " ", "P", "a", "t", "h", ":", "a", " ", "-", "-", ">">>,
     <<"a", " ", "<", "!", "-", "-", " ", "c", " ", "-", "-", ">">>,
     <<"<", "!", "-", "-", " ", "c">>,
     <<"c", " ", "-", "-", ">", " ", "a">>,
     <<"a">>,
     <<>>}

Pool_py ==
    {<<"#", " ", "P", "a", "t", "h", ":", "a">>,
     <<"a", " ", "#", " ", "c">>,
     <<"\"", "\"", "\"">>,
     <<"'", "'", "'">>,
     <<"#", " ", "c">>,
     <<"a">>,
     <<"\"", "\"", "\"", "'", "'", "'">>,
     <<"\"", "\"", "\"", "a", "\"", "\"", "\"", " ", "#", " ", "c">>,
     <<>>}

Pool_txt ==
    {<<"/", "/", " ", "P", "a", "t", "h", ":", "a">>,
     <<"a", " ", "/", "/", " ", "c">>,
     <<"/", "/", " ", "c">>,
     <<"a">>,
     <<" ", "a">>,
     <<>>}

Pool(e) ==
    IF e = "rs" THEN Pool_rs
    ELSE IF e = "css" THEN Pool_css
    ELSE IF e = "html" THEN Pool_html
    ELSE IF e = "py" THEN Pool_py
    ELSE Pool_txt

\* further lines for the files that are cleaned more than once
Pool_more_block  == <<"c", " ", "*", "/", " ", "a", " ", "/", "*", " ", "c", " ", "*", "/">>
Pool_more_markup == <<"c", " ", "-", "-", ">", " ", "a", " ", "<", "!", "-", "-", " ", "c", " ", "-", "-", ">">>
Pool_more_quoted == <<"'", "/", "/", "'", " ", "/", "/", " ", "c">>
Pool_more_open   == <<"\"", "a">>
Pool_more_closed == <<"\"", "b", "\"", " ", "/", "/", " ", "c">>

PoolTwice(e) ==
    Pool(e) \cup (IF e = "rs" THEN {Pool_more_block, Pool_more_open, Pool_more_closed}
                  ELSE IF e = "css" THEN {Pool_more_block}
                  ELSE IF e = "html" THEN {Pool_more_markup}
                  ELSE IF e = "txt" THEN {Pool_more_quoted}
                  ELSE {})

\* every list of at most n lines of the pool P
RECURSIVE LineLists(_, _)
LineLists(P, n) ==
    IF n = 0 THEN {<<>>}
    ELSE LET S == LineLists(P, n - 1) IN S \cup {Append(ls, l) : ls \in S, l \in P}

CrCrLf == <<"\r", "\r", "\n">>
Eols == {Lf, CrLf, CrCrLf}

\* one file of at most MaxLines lines, with each line ending, with and
\* without a final line ending
InitFile ==
    \/ \E e \in Exts : \E ls \in LineLists(Pool(e), MaxLines) :
       \E eol \in Eols : \E final \in BOOLEAN :
           InitRest(<<MakeText(ls, eol, final)>>, <<e>>, 1)
    \/ \E x \in FileExamples : InitRest(<<MakeText(x.ls, Lf, TRUE)>>, <<x.e>>, 1)

Spec == InitFile /\ [][Next]_vars

\* one file on which clean is run MaxRuns times
InitTwice ==
    \E e \in Exts : \E ls \in LineLists(PoolTwice(e), MaxLines) :
        InitRest(<<MakeText(ls, Lf, TRUE)>>, <<e>>, MaxRuns)

SpecTwice == InitTwice /\ [][Next]_vars

\* a walk over at most MaxFiles files
Catalog ==
    {[e |-> "rs",  ls |-> <<Pool_rs_code, Pool_rs_comment>>],
     [e |-> "rs",  ls |-> <<Pool_rs_code>>],
     [e |-> "rs",  ls |-> <<Pool_rs_open, Pool_rs_code>>],
     [e |-> "py",  ls |-> <<TripleDouble, Pool_py_comment>>],
     [e |-> "py",  ls |-> <<Pool_py_comment>>],
     [e |-> "css", ls |-> <<Pool_rs_open, Pool_rs_close>>]}

InitBatch ==
    \E n \in 1..MaxFiles : \E pick \in [1..n -> Catalog] :
        InitRest([f \in 1..n |-> MakeText(pick[f].ls, Lf, TRUE)],
                 [f \in 1..n |-> pick[f].e], 1)

SpecBatch == InitBatch /\ [][Next]_vars

(***************************************************************************)
(* The tree under the target directory and the commands `add` and           *)
(* `remove` (src/src/commands/add.rs, remove.rs, utils.rs, file_utils.rs).  *)
(* A path is a sequence of names, a name a sequence of characters; path[f]  *)
(* holds the names from the target directory down to the stem of file f,    *)
(* whose file name is the stem, a dot and ext[f].                           *)
(***************************************************************************)
MaxUp    == 2
MaxDepth == 2

\* the characters of an extension
ExtChars(e) ==
    CASE e = "c" -> <<"c">>
      [] e = "cpp" -> <<"c", "p", "p">>
      [] e = "h" -> <<"h">>
      [] e = "hpp" -> <<"h", "p", "p">>
      [] e = "cs" -> <<"c", "s">>
      [] e = "go" -> <<"g", "o">>
      [] e = "java" -> <<"j", "a", "v", "a">>
      [] e = "rs" -> <<"r", "s">>
      [] e = "swift" -> <<"s", "w", "i", "f", "t">>
      [] e = "kt" -> <<"k", "t">>
      [] e = "js" -> <<"j", "s">>
      [] e = "ts" -> <<"t", "s">>
      [] e = "jsx" -> <<"j", "s", "x">>
      [] e = "tsx" -> <<"t", "s", "x">>
      [] e = "css" -> <<"c", "s", "s">>
      [] e = "scss" -> <<"s", "c", "s", "s">>
      [] e = "less" -> <<"l", "e", "s", "s">>
      [] e = "html" -> <<"h", "t", "m", "l">>
      [] e = "svelte" -> <<"s", "v", "e", "l", "t", "e">>
      [] e = "vue" -> <<"v", "u", "e">>
      [] e = "xml" -> <<"x", "m", "l">>
      [] e = "md" -> <<"m", "d">>
      [] e = "py" -> <<"p", "y">>
      [] e = "rb" -> <<"r", "b">>
      [] e = "sh" -> <<"s", "h">>
      [] e = "bash" -> <<"b", "a", "s", "h">>
      [] e = "pl" -> <<"p", "l">>
      [] e = "Dockerfile" -> <<"D", "o", "c", "k", "e", "r", "f", "i", "l", "e">>
      [] e = "yaml" -> <<"y", "a", "m", "l">>
      [] e = "yml" -> <<"y", "m", "l">>
      [] e = "toml" -> <<"t", "o", "m", "l">>
      [] e = "ps1" -> <<"p", "s", "1">>
      [] e = "txt" -> <<"t", "x", "t">>
      [] e = "dart" -> <<"d", "a", "r", "t">>
      [] e = "" -> <<>>

FileName(f) == path[f][Len(path[f])] \o <<".">> \o ExtChars(ext[f])

\* get_comment_style (file_utils.rs, lines 27-47)
get_comment_style(e) ==
    IF e \in JsExts \cup CLikeExts THEN [prefix |-> Slashes, suffix |-> <<>>]
    ELSE IF e \in CssExts THEN [prefix |-> Slashes, suffix |-> <<>>]
    ELSE IF e \in MarkupExts THEN [prefix |-> HtmlOpen, suffix |-> HtmlClose]
    ELSE IF e \in ScriptExts THEN [prefix |-> Hash, suffix |-> <<>>]
    ELSE [prefix |-> Slashes, suffix |-> <<>>]

\* utils.rs, lines 68-77: the loop that climbs from the target directory;
\* the root <<>> has no parent
RECURSIVE effective_strip_root(_, _)
effective_strip_root(dir, up_levels) ==
    IF up_levels = 0 \/ dir = <<>> THEN dir
    ELSE effective_strip_root(SubSeq(dir, 1, Len(dir) - 1), up_levels - 1)

\* the canonical path of file f
absolute_file_path(f) ==
    args.directory \o SubSeq(path[f], 1, Len(path[f]) - 1) \o <<FileName(f)>>

\* Path::strip_prefix, the caller having checked that base is a prefix
strip_prefix(p, base) == Tail_(p, Len(base) + 1)

\* faulty variant: the path is always taken from the target directory
generate_display_path_FromTarget(f) ==
    strip_prefix(absolute_file_path(f), args.directory)

\* generate_display_path (utils.rs, lines 49-85)
generate_display_path(f) ==
    strip_prefix(absolute_file_path(f), effective_strip_root(args.directory, args.up))

\* Path::display on a platform whose separator is "/"
Display(p) == JoinWith(p, <<"/">>)

\* add.rs, lines 22-26
Header(f) ==
    LET cs == get_comment_style(ext[f])
        p  == Display(generate_display_path(f))
    IN  IF cs.suffix = <<>> THEN Trim(cs.prefix \o PathWord \o p)
        ELSE Trim(cs.prefix \o PathWord \o <<" ">> \o p \o <<" ">> \o cs.suffix)

\* BufRead::read_line: the text up to and including the first newline
FirstLine(text) ==
    LET i == Find(text, Lf) IN IF i = 0 THEN text ELSE SubSeq(text, 1, i)

\* add.rs, line 33, and remove.rs, line 24
is_path_header(text, e) ==
    StartsWith(Trim(FirstLine(text)), get_comment_style(e).prefix \o PathWord)

\* lines().skip(1).collect().join("\n")
SkipFirstLine(text) == JoinLines(Tail_(Lines(text), 2))

\* add.rs, lines 40-47: the new content of file f
AddedContent(f) ==
    Header(f) \o Lf \o (IF is_path_header(disk[f], ext[f]) /\ args.force
                        THEN SkipFirstLine(disk[f]) ELSE disk[f])

\* a command starts: what StartClean does, for `add` and `remove`
StartWalk(cmd, pc_) ==
    /\ pc \in {"idle", "done", "failed"}
    /\ budget > 0
    /\ budget' = budget - 1
    /\ pc' = pc_
    /\ cur' = 0
    /\ original_lines' = <<>>
    /\ new_lines' = <<>>
    /\ line_num' = 0
    /\ flags' = NoFlags
    /\ last' = NoLast
    /\ disk0' = disk
    /\ reads' = [f \in Files |-> 0]
    /\ writes' = [f \in Files |-> <<>>]
    /\ outcome' = [f \in Files |-> "none"]
    /\ hist' = Append(hist, [cmd |-> cmd, disk |-> disk])
    /\ UNCHANGED <<disk, ext, verdicts, path>>
    /\ UNCHANGED svars

\* `add` is started with or without --force (cli.rs, lines 53-55)
StartAdd ==
    /\ StartWalk("add", "walk_add")
    /\ \E force \in BOOLEAN : args' = [args EXCEPT !.force = force]

StartRemove ==
    /\ StartWalk("remove", "walk_remove")
    /\ UNCHANGED args

\* the filter of create_file_walker drops the entry
SkipEntry ==
    /\ pc \in {"walk", "walk_add", "walk_remove"}
    /\ cur < Len(disk)
    /\ ~Yielded(cur + 1)
    /\ cur' = cur + 1
    /\ UNCHANGED <<disk, ext, budget, pc, original_lines, new_lines, line_num, flags,
                   last, disk0, reads, writes, outcome, verdicts, args, path, hist>>
    /\ UNCHANGED svars

\* the per-file state an add or remove step leaves alone
Locals == <<ext, budget, original_lines, new_lines, line_num, flags, last, disk0,
            verdicts, args, path, hist, svars>>

\* add.rs, lines 16-52: one entry of the walk
AddFile ==
    /\ pc = "walk_add"
    /\ cur < Len(disk)
    /\ Yielded(cur + 1)
    /\ cur' = cur + 1
    /\ reads' = [reads EXCEPT ![cur + 1] = @ + 1]
    /\ IF is_path_header(disk[cur + 1], ext[cur + 1]) /\ ~args.force
       THEN /\ outcome' = [outcome EXCEPT ![cur + 1] = "skipped"]
            /\ UNCHANGED <<disk, writes>>
       ELSE /\ disk' = [disk EXCEPT ![cur + 1] = AddedContent(cur + 1)]
            /\ writes' = [writes EXCEPT ![cur + 1] = Append(@, AddedContent(cur + 1))]
            /\ outcome' = [outcome EXCEPT ![cur + 1] =
                              IF is_path_header(disk[cur + 1], ext[cur + 1])
                              THEN "replaced" ELSE "added"]
    /\ UNCHANGED pc
    /\ UNCHANGED Locals

\* add.rs, lines 29-31, and remove.rs, lines 19-21: the first line cannot be
\* read and the walk goes on
OpenFail ==
    /\ pc \in {"walk_add", "walk_remove"}
    /\ cur < Len(disk)
    /\ Yielded(cur + 1)
    /\ cur' = cur + 1
    /\ outcome' = [outcome EXCEPT ![cur + 1] = "unreadable"]
    /\ UNCHANGED <<disk, pc, reads, writes>>
    /\ UNCHANGED Locals

\* add.rs, lines 18, 41, 44 and 48: generate_display_path, read_to_string
\* or fs::write fails and `?` returns the error from add
AddFail ==
    /\ pc = "walk_add"
    /\ cur < Len(disk)
    /\ Yielded(cur + 1)
    /\ cur' = cur + 1
    /\ outcome' = [outcome EXCEPT ![cur + 1] = "error"]
    /\ pc' = "failed"
    /\ UNCHANGED <<disk, reads, writes>>
    /\ UNCHANGED Locals

\* remove.rs, lines 16-32: one entry of the walk
RemoveFile ==
    /\ pc = "walk_remove"
    /\ cur < Len(disk)
    /\ Yielded(cur + 1)
    /\ cur' = cur + 1
    /\ reads' = [reads EXCEPT ![cur + 1] = @ + 1]
    /\ IF is_path_header(disk[cur + 1], ext[cur + 1])
       THEN /\ disk' = [disk EXCEPT ![cur + 1] = SkipFirstLine(disk[cur + 1])]
            /\ writes' = [writes EXCEPT ![cur + 1] = Append(@, SkipFirstLine(disk[cur + 1]))]
            /\ outcome' = [outcome EXCEPT ![cur + 1] = "removed"]
       ELSE /\ outcome' = [outcome EXCEPT ![cur + 1] = "skipped"]
            /\ UNCHANGED <<disk, writes>>
    /\ UNCHANGED pc
    /\ UNCHANGED Locals

\* remove.rs, lines 25 and 27: read_to_string or fs::write fails and `?`
\* returns the error from remove
RemoveFail ==
    /\ pc = "walk_remove"
    /\ cur < Len(disk)
    /\ Yielded(cur + 1)
    /\ is_path_header(disk[cur + 1], ext[cur + 1])
    /\ cur' = cur + 1
    /\ outcome' = [outcome EXCEPT ![cur + 1] = "error"]
    /\ pc' = "failed"
    /\ UNCHANGED <<disk, reads, writes>>
    /\ UNCHANGED Locals

\* add.rs, lines 53-54, and remove.rs, lines 33-34: the walk is exhausted
EndWalk ==
    /\ pc \in {"walk_add", "walk_remove"}
    /\ cur = Len(disk)
    /\ pc' = "done"
    /\ UNCHANGED <<disk, cur, reads, writes, outcome>>
    /\ UNCHANGED Locals

\* the three commands over a tree
NextTree ==
    \/ Next
    \/ StartAdd
    \/ StartRemove
    \/ SkipEntry
    \/ AddFile
    \/ OpenFail
    \/ AddFail
    \/ RemoveFile
    \/ RemoveFail
    \/ EndWalk

\* the files a tree is made of: extension, path below the target directory
\* and content
TreeCatalog ==
    <<[e |-> "py",   p |-> <<<<"c">>>>,
       text |-> <<"a">>],
      [e |-> "py",   p |-> <<<<"s">>, <<"u">>>>,
       text |-> <<"a", "\n", "b", "\n">>],
      [e |-> "rs",   p |-> <<<<"s">>, <<"v">>, <<"m">>>>,
       text |-> <<"a", "\r", "\n", "b", "\r", "\n">>],
      [e |-> "html", p |-> <<<<"i">>>>,
       text |-> <<"<", "!", "-", "-", " ", "P", "a", "t", "h", ":", " ", "x", " ", "-", "-", ">", "\n", "a", "\n">>],
      [e |-> "py",   p |-> <<<<"s">>, <<"h">>>>,
       text |-> <<"#", " ", "P", "a", "t", "h", ":", "x", "\n", "a", " ", "#", " ", "c", "\n">>],
      [e |-> "txt",  p |-> <<<<"n">>>>,
       text |-> <<"a", "\n">>]>>

\* the extensions the commands are given
TreeExts == {"py", "rs", "html"}

\* the target directory is /, /r or /r/p
TargetPath == <<<<"r">>, <<"p">>>>

TargetDirs == {SubSeq(TargetPath, 1, n) : n \in 0..Len(TargetPath)}

\* the lists of at most n catalogue entries, in catalogue order
Picks(n) ==
    {s \in UNION {[1..k -> 1..Len(TreeCatalog)] : k \in 1..n} :
        \A i, j \in DOMAIN s : i < j => s[i] < s[j]}

\* a tree of at most MaxFiles files, and the arguments of the two commands
\* that are run on it; --force is chosen when `add` starts
InitTree ==
    \E pick \in Picks(MaxFiles) : \E dir \in TargetDirs : \E up \in 0..MaxUp :
    \E has_depth \in BOOLEAN : \E depth \in 0..MaxDepth :
        /\ has_depth \/ depth = 0
        /\ InitCore([f \in DOMAIN pick |-> TreeCatalog[pick[f]].text],
                    [f \in DOMAIN pick |-> TreeCatalog[pick[f]].e], 2)
        /\ NoStructure
        /\ args = [directory |-> dir, exts |-> TreeExts, up |-> up,
                   has_depth |-> has_depth, depth |-> depth, force |-> FALSE]
        /\ path = [f \in DOMAIN pick |-> TreeCatalog[pick[f]].p]

SpecTree == InitTree /\ [][NextTree]_vars

\* one file without a path header on which MaxCommands commands are run
MaxCommands == 3

SeqCatalog ==
    {[e |-> "py",   text |-> <<"a", " ", "#", " ", "c", "\n", "b", "\n">>],
     [e |-> "rs",   text |-> <<"a", "\r", "\n", "/", "*", " ", "c", " ", "*", "/", " ", "b", " ", "/", "/", " ", "c", "\r", "\n">>],
     [e |-> "css",  text |-> <<"a", "\n", "/", "*", " ", "c", " ", "*", "/", "/", "/", " ", "P", "a", "t", "h", ":", "x", "\n">>],
     [e |-> "html", text |-> <<"<", "!", "-", "-", " ", "c", " ", "-", "-", ">", "\n", "a", "\n">>],
     [e |-> "txt",  text |-> <<"a", "\n">>]}

SeqExts == {"py", "rs", "css", "html"}

InitSeq ==
    \E x \in SeqCatalog :
        /\ InitCore(<<x.text>>, <<x.e>>, MaxCommands)
        /\ NoStructure
        /\ args = [directory |-> TargetPath, exts |-> SeqExts, up |-> 0,
                   has_depth |-> FALSE, depth |-> 0, force |-> FALSE]
        /\ path = <<<<<<"f">>>>>>

SpecSeq == InitSeq /\ [][NextTree]_vars

(***************************************************************************)
(* build_tree (structure.rs, lines 44-75) over the lines read by           *)
(* `structure`.  One action is one iteration of the for loop.              *)
(***************************************************************************)
\* the state of the other commands
cvars == <<disk, ext, budget, pc, cur, original_lines, new_lines, line_num, flags,
           last, disk0, reads, writes, outcome, verdicts, args, path, hist>>

\* the line the for loop takes next, and what parse_line makes of it
NextLine == lines[consumed + 1]

Taking(kind) ==
    /\ bpc = "building"
    /\ consumed < Len(lines)
    /\ parse_line(NextLine, indent_width).kind = kind
    /\ consumed' = consumed + 1
    /\ parsed' = [valid |-> TRUE, line |-> NextLine,
                  result |-> parse_line(NextLine, indent_width)]

\* line 49: parse_line returns None for a blank line, which is skipped
SkipBlank ==
    /\ Taking("None")
    /\ UNCHANGED <<lines, indent_width, nodes, stack, bpc>>
    /\ UNCHANGED cvars

\* lines 38-39: parse_line panics and the program ends
ParsePanic ==
    /\ Taking("panic")
    /\ bpc' = "panicked"
    /\ UNCHANGED <<lines, indent_width, nodes, stack>>
    /\ UNCHANGED cvars

\* lines 50-70: the entry is made the last child of the node the stack ends
\* with after the pops, and is pushed
AddEntry ==
    /\ Taking("Some")
    /\ LET r      == parse_line(NextLine, indent_width)
           st     == PopStack(stack, r.level)
           parent == st[Len(st)]
           id     == Len(nodes) + 1
           new_node == [name |-> r.name, level |-> r.level,
                        relative_path |-> join(nodes[parent].relative_path, r.name),
                        children |-> <<>>]
       IN  /\ nodes' = Append([nodes EXCEPT ![parent].children = Append(@, id)], new_node)
           /\ stack' = Append(st, id)
    /\ UNCHANGED <<lines, indent_width, bpc>>
    /\ UNCHANGED cvars

\* line 74: the lines are exhausted and the root is returned
ReturnRoot ==
    /\ bpc = "building"
    /\ consumed = Len(lines)
    /\ bpc' = "built"
    /\ UNCHANGED <<lines, indent_width, consumed, nodes, stack, parsed>>
    /\ UNCHANGED cvars

NextStructure ==
    \/ SkipBlank
    \/ ParsePanic
    \/ AddEntry
    \/ ReturnRoot

\* the lines of a structure file
StructurePool ==
    {<<"a">>,
     <<" ", "b">>,
     <<" ", " ", "c">>,
     <<" ", " ", " ", " ", "d", "/">>,
     <<>>,
     <<" ", " ">>,
     <<Tee, Horiz, Horiz, " ", "e">>,
     <<Vert, " ", " ", "f">>,
     <<Tee, Horiz, " ", "g">>}

\* build_tree is called with at most MaxEntries lines and an indent of at
\* most MaxIndent (lines 45-46 have run)
InitStructure ==
    \E ls \in LineLists(StructurePool, MaxEntries) : \E w \in 0..MaxIndent :
        /\ InitCore(<<>>, <<>>, 0)
        /\ args = [directory |-> <<>>, exts |-> {}, up |-> 0,
                   has_depth |-> FALSE, depth |-> 0, force |-> FALSE]
        /\ path = <<>>
        /\ lines = ls
        /\ indent_width = w
        /\ consumed = 0
        /\ nodes = <<new_root>>
        /\ stack = <<Root>>
        /\ bpc = "building"
        /\ parsed = NoParse

SpecStructure == InitStructure /\ [][NextStructure]_vars

(***************************************************************************)
(* Notions the properties are stated with.  They describe a line by the    *)
(* position of its characters, not by the loop of the code.                *)
(***************************************************************************)
\* the current file's style and the line of the last iteration
CurStyle == Style(ext[cur])

NonEmpty(l) == IF l # <<>> THEN <<l>> ELSE <<>>

\* number of consecutive backslashes that end just before position i
RECURSIVE BackslashRun(_, _)
BackslashRun(line, i) ==
    IF i <= 1 THEN 0
    ELSE IF line[i - 1] = "\\" THEN 1 + BackslashRun(line, i - 1) ELSE 0

\* position i is the second character of an escaped pair
Escaped(line, i) == BackslashRun(line, i) % 2 = 1

\* the quote that is open just before position i, "" when none is
RECURSIVE OpenQuote(_, _)
OpenQuote(line, i) ==
    IF i <= 1 THEN ""
    ELSE LET q == OpenQuote(line, i - 1)
             c == line[i - 1]
         IN  IF Escaped(line, i - 1) \/ c \notin {"'", "\""} THEN q
             ELSE IF q = "" THEN c
             ELSE IF q = c THEN ""
             ELSE q

\* position i lies inside a quoted span that is closed on the line
InString(line, i) ==
    /\ OpenQuote(line, i) # ""
    /\ OpenQuote(line, i + 1) # ""
    /\ \E j \in (i + 1)..Len(line) : OpenQuote(line, j + 1) = ""

OccursAt(line, i, m) == m # <<>> /\ StartsWith(Tail_(line, i), m)

StyleMarkers(style) == {style.single, style.bstart} \ {<<>>}

\* the trimmed line starts with "{prefix} Path:", prefix being the single-line
\* prefix or the block-start marker of the style
HeaderLine(line, style) ==
    \E m \in StyleMarkers(style) : StartsWith(Trim(line), m \o PathWord)

\* a comment marker of the style lies inside a quoted span of the line
HasQuotedMarker(line, style) ==
    \E i \in 1..Len(line) : \E m \in StyleMarkers(style) :
        InString(line, i) /\ OccursAt(line, i, m)

\* the text of a line that is code or string when quoted spans are honoured
\* for every marker of the style: content is that text, blk tells that a
\* block comment is left open
RECURSIVE CodeText(_, _, _)
CodeText(line, style, i) ==
    IF i > Len(line) THEN [content |-> <<>>, blk |-> FALSE]
    ELSE IF OpenQuote(line, i) = "" /\ ~Escaped(line, i) /\ OccursAt(line, i, style.single)
         THEN [content |-> <<>>, blk |-> FALSE]
    ELSE IF OpenQuote(line, i) = "" /\ ~Escaped(line, i) /\ OccursAt(line, i, style.bstart)
         THEN LET from == i + Len(style.bstart)
                  j    == Find(Tail_(line, from), style.bend)
              IN  IF j = 0 THEN [content |-> <<>>, blk |-> TRUE]
                  ELSE CodeText(line, style, from + j - 1 + Len(style.bend))
    ELSE LET r == CodeText(line, style, i + 1)
         IN  [content |-> <<line[i]>> \o r.content, blk |-> r.blk]

\* the last iteration scanned its line: it met no header, no docstring line
\* and no open block comment
ScannedFresh ==
    /\ pc = "scan"
    /\ last.valid
    /\ ~last.pre.blk
    /\ ~HeaderLine(last.line, CurStyle)
    /\ ~(IsPython(ext[cur]) /\ PythonPreserves(last.line, last.pre))

(***************************************************************************)
(* C1.  String-literal preservation: a line scanned outside an open block  *)
(* comment that holds a comment marker of its style inside a quoted span   *)
(* is emitted as its code-plus-string text with trailing whitespace        *)
(* removed, and the quoted marker does not set the block-comment flag.     *)
(***************************************************************************)
C1_StringLiteralPreservation ==
    (ScannedFresh /\ HasQuotedMarker(last.line, CurStyle)) =>
        LET r == CodeText(last.line, CurStyle, 1)
        IN  /\ last.emit = NonEmpty(TrimEnd(r.content))
            /\ flags.blk = r.blk

(***************************************************************************)
(* C2.  Idempotence: once a file has been processed by a run of clean      *)
(* (written or skipped), every later run computes has_changed = false for  *)
(* it, reports no change and does not write it.                            *)
(***************************************************************************)
C2_Idempotence ==
    \A f \in Files : \A k \in 2..Len(verdicts[f]) : verdicts[f][k] = FALSE

(***************************************************************************)
(* C3.  Header invariance: a path header in the first line of a file is    *)
(* the first line of the content clean leaves in the file, whatever the    *)
(* rest of the file contains.  Lines are compared without their line       *)
(* ending, and carriage returns that precede the newline belong to the     *)
(* line ending (clean rewrites every line ending as LF); a header that     *)
(* ends with no carriage return is kept exactly.                           *)
(***************************************************************************)
\* this run processed file f to the end (wrote it or skipped it)
Processed(f) == outcome[f] \in {"cleaned", "skipped"}

\* the first line of file f was a path header when the run started
HeaderFirst(f) ==
    /\ Lines(disk0[f]) # <<>>
    /\ HeaderLine(Lines(disk0[f])[1], Style(ext[f]))

RECURSIVE StripCrs(_)
StripCrs(l) == IF l # <<>> /\ l[Len(l)] = "\r" THEN StripCrs(StripCr(l)) ELSE l

RECURSIVE PyScan(_, _, _, _)
PyScan(line, i, mode, q) ==
    IF i > Len(line) THEN [mode |-> mode, opened |-> FALSE, cut |-> 0]
    ELSE IF mode # "code" THEN
        LET delim == IF mode = "D" THEN TripleDouble ELSE TripleSingle
            j     == Find(Tail_(line, i), delim)
        IN  IF j = 0 THEN [mode |-> mode, opened |-> FALSE, cut |-> 0]
            ELSE PyScan(line, i + j + 2, "code", "")
    ELSE IF line[i] = "\\" THEN PyScan(line, i + 2, mode, q)
    ELSE IF q # "" THEN PyScan(line, i + 1, mode, IF line[i] = q THEN "" ELSE q)
    ELSE IF OccursAt(line, i, TripleDouble)
         THEN [PyScan(line, i + 3, "D", "") EXCEPT !.opened = TRUE]
    ELSE IF OccursAt(line, i, TripleSingle)
         THEN [PyScan(line, i + 3, "S", "") EXCEPT !.opened = TRUE]
    ELSE IF line[i] \in {"'", "\""} THEN PyScan(line, i + 1, mode, line[i])
    ELSE IF line[i] = "#" THEN [mode |-> mode, opened |-> FALSE, cut |-> i]
    ELSE PyScan(line, i + 1, mode, q)

\* the mode after the first k lines
RECURSIVE PyModeAfter(_, _)
PyModeAfter(ls, k) ==
    IF k = 0 THEN "code"
    ELSE PyScan(ls[k], 1, PyModeAfter(ls, k - 1), "").mode

\* C4, as claimed: every line from the opening to the closing line of a
\* triple-quoted block is emitted unchanged; outside the blocks a # comment
\* line that is no path header is absent and a trailing # comment is removed
C4_DocstringPreservation ==
    (pc = "scan" /\ last.valid /\ IsPython(ext[cur])) =>
        LET m == PyModeAfter(original_lines, line_num - 1)
            r == PyScan(last.line, 1, m, "")
        IN  /\ (m # "code" \/ r.opened) => last.emit = <<last.line>>
            /\ (m = "code" /\ ~r.opened /\ r.cut > 0 /\ ~HeaderLine(last.line, CurStyle))
                  => last.emit = NonEmpty(TrimEnd(SubSeq(last.line, 1, r.cut - 1)))

(***************************************************************************)
(* C5.  Escaped pairs in clean_line_of_code: a backslash consumes itself   *)
(* and the next character, so an escaped character neither toggles a quote *)
(* flag nor starts a detected comment prefix.  Hence the position at which *)
(* the prefix is detected does not change when every backslash and every   *)
(* escaped character is replaced by a letter, that position is never an    *)
(* escaped one, and `"a \" b" // comment` loses only `// comment`.         *)
(***************************************************************************)
Neutral(line) ==
    [i \in 1..Len(line) |->
        IF line[i] = "\\" \/ Escaped(line, i) THEN "a" ELSE line[i]]

DetectedAt(line, style) == CommentStart(line, style.single, 1, FALSE, FALSE)

ExampleEscapedKept == <<"\"", "a", " ", "\\", "\"", " ", "b", "\"">>

\* C5: a backslash and the character after it never open or close a string
\* and never start a comment; the example line keeps its string
C5_EscapedPairs ==
    (pc = "scan" /\ last.valid /\ CurStyle.single # <<>>) =>
        LET p == DetectedAt(last.line, CurStyle)
        IN  /\ p = DetectedAt(Neutral(last.line), CurStyle)
            /\ p # 0 => ~Escaped(last.line, p)
            /\ (last.line = ExampleEscaped /\ CurStyle.single = Slashes)
                  => last.emit = <<ExampleEscapedKept>>

\* C5 witness: a comment is detected after an escaped quote
C5_Witness ==
    /\ pc = "scan" /\ last.valid /\ CurStyle.single # <<>>
    /\ \E i \in 1..Len(last.line) :
          /\ Escaped(last.line, i)
          /\ last.line[i] \in {"'", "\""}
          /\ DetectedAt(last.line, CurStyle) > i
          /\ last.emit = <<TrimEnd(SubSeq(last.line, 1, DetectedAt(last.line, CurStyle) - 1))>>

(***************************************************************************)
(* C6.  A block comment that spans lines.                                  *)
(***************************************************************************)
\* the positions of a line at which the single-line prefix stands outside
\* every quoted span and is not the second character of an escaped pair
FreeAt(line, single) ==
    {i \in 1..Len(line) :
        OpenQuote(line, i) = "" /\ ~Escaped(line, i) /\ OccursAt(line, i, single)}

\* the code line of a text: cut at the first such position, trailing
\* whitespace trimmed, nothing when nothing is left
CodeLine(text, single) ==
    NonEmpty(TrimEnd(IF FreeAt(text, single) = {} THEN text
                     ELSE SubSeq(text, 1, Min(FreeAt(text, single)) - 1)))

\* the position of the block-start marker that no terminator follows on the
\* line, 0 when every block comment of the line is closed
RECURSIVE OpenMarker(_, _, _)
OpenMarker(line, style, from) ==
    LET j == Find(Tail_(line, from), style.bstart)
        m == from + j - 1
        k == Find(Tail_(line, m + Len(style.bstart)), style.bend)
    IN  IF j = 0 THEN 0
        ELSE IF k = 0 THEN m
        ELSE OpenMarker(line, style, m + Len(style.bstart) + k - 1 + Len(style.bend))

HasBlocks(style) == style.bstart # <<>> /\ style.bend # <<>>

\* the three parts of the claim for the last iteration; hdr tells whether
\* path-header lines are left out of it
C6_Lines(hdr) ==
    (/\ pc = "scan" /\ last.valid /\ HasBlocks(CurStyle)
     /\ hdr => ~HeaderLine(last.line, CurStyle)) =>
        LET line == last.line
            t    == Find(line, CurStyle.bend)
            m    == OpenMarker(line, CurStyle, 1)
        IN  \* an interior line is dropped
            /\ (last.pre.blk /\ t = 0) => (last.emit = <<>> /\ flags.blk)
            \* a closing line gives the text after the terminator
            /\ (last.pre.blk /\ t # 0) =>
                 /\ last.emit = CodeLine(Tail_(line, t + Len(CurStyle.bend)), CurStyle.single)
                 /\ ~flags.blk
            \* an opening line gives nothing from the marker on
            /\ (~last.pre.blk /\ m # 0) =>
                 /\ last.emit = ProcessLine(SubSeq(line, 1, m - 1), ext[cur], last.pre).emit
                 /\ flags.blk

ExampleScanned ==
    pc = "scan" /\ original_lines = ExampleBlock /\ line_num = Len(original_lines)

CodeHere == <<"c", "o", "d", "e", "_", "h", "e", "r", "e">>

SpaceCodeHere == <<" ", "c", "o", "d", "e", "_", "h", "e", "r", "e">>

\* C6, as claimed: the opener's text from the marker on, every interior line
\* and the closing line up to its terminator are dropped, the text after the
\* terminator is the code line, and the example gives the line `code_here`
C6_BlockCommentAsClaimed ==
    /\ C6_Lines(FALSE)
    /\ ExampleScanned => new_lines = <<CodeHere>>

\* C6 as amended: the same for every line that is no path-header line (such
\* a line is kept and leaves the comment open); the code line is the text
\* after the terminator with a single-line comment and trailing whitespace
\* removed, leading whitespace kept, so the example gives ` code_here`
C6_BlockComment ==
    /\ C6_Lines(TRUE)
    /\ ExampleScanned => new_lines = <<SpaceCodeHere>>

\* C6 witness: the example has been scanned to its end
C6_Witness ==
    /\ ExampleScanned
    /\ ~flags.blk
    /\ last.pre.blk
    /\ new_lines = <<SpaceCodeHere>>

(***************************************************************************)
(* C7.  Inline comment stripping.                                          *)
(***************************************************************************)
\* the positions at which the single-line prefix stands outside every
\* quoted span
UnquotedAt(line, single) ==
    {i \in 1..Len(line) : OpenQuote(line, i) = "" /\ OccursAt(line, i, single)}

UrlKept == <<"l", "e", "t", " ", "u", "r", "l", " ", "=", " ", "\"", "h", "t", "t", "p", ":", "/", "/", "x", ".", "c", "o", "m", "/", "#", "a", "\"", ";">>

\* C7, as claimed: in a file whose style has a single-line prefix a line is
\* emitted cut at the first occurrence of the prefix outside every quoted
\* span, trailing whitespace trimmed, dropped if empty
C7_InlineAsClaimed ==
    (pc = "scan" /\ last.valid /\ CurStyle.single # <<>>) =>
        LET Q == UnquotedAt(last.line, CurStyle.single)
        IN  last.emit = NonEmpty(TrimEnd(IF Q = {} THEN last.line
                                         ELSE SubSeq(last.line, 1, Min(Q) - 1)))

\* the last iteration passed its whole line to the single-line stage: the
\* line is no path header, holds no block-start marker and was met outside
\* an open block comment and, in a .py file, outside a triple-quoted block
\* and with no triple-quote delimiter on it
PlainCodeLine ==
    /\ pc = "scan" /\ last.valid /\ CurStyle.single # <<>>
    /\ ~HeaderLine(last.line, CurStyle)
    /\ ~last.pre.blk
    /\ ~(HasBlocks(CurStyle) /\ Find(last.line, CurStyle.bstart) # 0)
    /\ IsPython(ext[cur]) =>
          /\ ~last.pre.td /\ ~last.pre.ts
          /\ Find(last.line, TripleDouble) = 0
          /\ Find(last.line, TripleSingle) = 0

\* C7 as amended: such a line is emitted cut at the first occurrence of the
\* prefix that is outside every quoted span and is not the character after
\* a backslash, trailing whitespace trimmed, dropped if empty; the example
\* line becomes `let url = "http://x.com/#a";`
C7_Inline ==
    /\ PlainCodeLine => last.emit = CodeLine(last.line, CurStyle.single)
    /\ (pc = "scan" /\ last.valid /\ last.line = ExampleUrl /\ CurStyle.single = Slashes)
          => last.emit = <<UrlKept>>

\* C7 witness: the example line has been scanned
C7_Witness ==
    /\ PlainCodeLine
    /\ last.line = ExampleUrl
    /\ last.emit = <<UrlKept>>

(***************************************************************************)
(* C8.  Batch independence on failure: when a run of clean is over, every  *)
(* matched file has its own outcome; a file whose read or write failed     *)
(* does not keep the other files from being cleaned or skipped.            *)
(***************************************************************************)
RunOver == pc \in {"done", "failed"}

\* C8: when the run is over every matched file has an outcome of its own:
\* it was processed to the end or its error was reported
C8_BatchIndependence ==
    RunOver => \A f \in Files : outcome[f] = "error" \/ Processed(f)

(***************************************************************************)
(* C9.  No false change: a file in which nothing is strippable is not      *)
(* written and keeps its bytes, whether its lines end with LF or CRLF and  *)
(* whether or not it ends with a final newline.                            *)
(***************************************************************************)
\* no line is blank or ends with whitespace, none holds a marker of the style
NothingStrippable(f) ==
    \A k \in 1..Len(Lines(disk0[f])) :
        LET line == Lines(disk0[f])[k]
        IN  /\ line # <<>>
            /\ line[Len(line)] \notin WS
            /\ \A m \in {Style(ext[f]).single, Style(ext[f]).bstart, Style(ext[f]).bend} :
                   m # <<>> => Find(line, m) = 0

\* C9: a file with nothing to strip is found unchanged, is not written and
\* keeps its bytes, whatever its line endings and final newline
C9_NoFalseChange ==
    \A f \in Files : NothingStrippable(f) =>
        /\ writes[f] = <<>>
        /\ disk[f] = disk0[f]
        /\ Processed(f) => outcome[f] = "skipped"

\* C9 witness: a file of several CRLF lines without final newline has been skipped
C9_Witness ==
    \E f \in Files :
        /\ NothingStrippable(f)
        /\ outcome[f] = "skipped"
        /\ Len(Lines(disk0[f])) >= 2
        /\ Find(disk0[f], CrLf) # 0
        /\ disk0[f][Len(disk0[f])] # "\n"
        /\ disk[f] = disk0[f]

(***************************************************************************)
(* C10.  Write discipline: in one run every file the walk has reached was  *)
(* read once and no other file was read; a file is written at most once,   *)
(* never when it is skipped, and only with the complete replacement text   *)
(* of all its lines, which differs from its normalised original text.      *)
(***************************************************************************)
\* the lines clean keeps of the lines ls, from line k on, with carry flags st
RECURSIVE CleanedFrom(_, _, _, _)
CleanedFrom(ls, e, k, st) ==
    IF k > Len(ls) THEN <<>>
    ELSE LET r == ProcessLine(ls[k], e, st)
         IN  r.emit \o CleanedFrom(ls, e, k + 1, r.st)

Replacement(f) == FinalContent(CleanedFrom(Lines(disk0[f]), ext[f], 1, NoFlags))

\* C10: each file is read once and written at most once, only when changed
\* and only with the replacement text computed from all of its lines
C10_WriteDiscipline ==
    \A f \in Files :
        /\ reads[f] = IF f <= cur THEN 1 ELSE 0
        /\ pc = "done" => reads[f] = 1
        /\ Len(writes[f]) <= 1
        /\ outcome[f] = "skipped" => writes[f] = <<>>
        /\ writes[f] # <<>> =>
              /\ writes[f][1] = Replacement(f)
              /\ writes[f][1] # FinalContent(Lines(disk0[f]))
        /\ disk[f] = disk0[f] \/ (writes[f] # <<>> /\ disk[f] = writes[f][1])

\* C10 witness: a walk of two files is over: one was rewritten, the other skipped
C10_Witness ==
    /\ pc = "done"
    /\ \E f, g \in Files :
          /\ outcome[f] = "cleaned" /\ Len(writes[f]) = 1 /\ disk[f] = writes[f][1]
          /\ outcome[g] = "skipped" /\ writes[g] = <<>> /\ reads[g] = 1

(***************************************************************************)
(* C11.  All comments removed: in a file whose style has block markers no  *)
(* emitted line other than a path-header line holds a block-start marker   *)
(* outside a quoted span.                                                  *)
(***************************************************************************)
\* the line holds the marker m at a position where no quote is open
HoldsUnquoted(line, m) ==
    \E i \in 1..Len(line) : OccursAt(line, i, m) /\ OpenQuote(line, i) = ""

\* C11: in a file with block markers every emitted line is a path header or
\* holds no block-start marker outside a quoted span
C11_AllCommentsRemoved ==
    (pc = "scan" /\ HasBlocks(CurStyle)) =>
        \A k \in 1..Len(new_lines) :
            \/ HeaderLine(new_lines[k], CurStyle)
            \/ ~HoldsUnquoted(new_lines[k], CurStyle.bstart)

(***************************************************************************)
(* C12.  Scan state never leaks across files: the three carry flags are    *)
(* false at the first line of every file, and what is emitted for a file   *)
(* is a function of that file's own content and extension.                 *)
(***************************************************************************)
\* the carry flags after the lines ls, from line k on, started with st
RECURSIVE FlagsAfter(_, _, _, _)
FlagsAfter(ls, e, k, st) ==
    IF k > Len(ls) THEN st
    ELSE FlagsAfter(ls, e, k + 1, ProcessLine(ls[k], e, st).st)

\* file f, scanned on its own from false flags, ends with a flag set
EndsOpen(f) == FlagsAfter(Lines(disk0[f]), ext[f], 1, NoFlags) # NoFlags

\* C12: every file starts with the three carry flags false, and its emitted
\* lines and its outcome are those of the file scanned on its own
C12_NoLeakAcrossFiles ==
    /\ (pc = "scan" /\ line_num = 0) => flags = NoFlags
    /\ (pc = "scan" /\ line_num = Len(original_lines)) =>
          /\ new_lines = CleanedFrom(Lines(disk0[cur]), ext[cur], 1, NoFlags)
          /\ flags = FlagsAfter(Lines(disk0[cur]), ext[cur], 1, NoFlags)
    /\ \A f \in Files :
          /\ outcome[f] = "cleaned" => disk[f] = Replacement(f)
          /\ outcome[f] = "skipped" =>
                ~HasChanged(Lines(disk0[f]),
                            CleanedFrom(Lines(disk0[f]), ext[f], 1, NoFlags))

\* C12 witness: a file that ends inside an open block comment or docstring
\* was processed, and the file after it was cleaned of its comment
C12_Witness ==
    \E f \in Files :
        /\ f + 1 \in Files
        /\ Processed(f) /\ EndsOpen(f)
        /\ outcome[f + 1] = "cleaned"
        /\ disk[f + 1] = Replacement(f + 1)
        /\ Len(Lines(disk[f + 1])) >= 1

(***************************************************************************)
(* C13.  Style resolution is total and well-formed.                        *)
(***************************************************************************)
\* every extension the match of lines 72-87 names, two it does not name,
\* and "" for a path without extension
KnownExts == CLikeExts \cup JsExts \cup CssExts \cup MarkupExts \cup ScriptExts

AllExts == KnownExts \cup {"txt", "dart", ""}

StylePool ==
    {<<"a", " ", "/", "/", " ", "c">>,
     <<"a", " ", "#", " ", "c">>,
     <<"a", " ", "/", "*", " ", "c", " ", "*", "/">>,
     <<"a", " ", "<", "!", "-", "-", " ", "c", " ", "-", "-", ">">>}

\* one file of every extension
InitStyle ==
    \E e \in AllExts : \E ls \in LineLists(StylePool, MaxLines) :
        InitRest(<<MakeText(ls, Lf, TRUE)>>, <<e>>, 1)

SpecStyle == InitStyle /\ [][Next]_vars

\* a single-line prefix, or both block markers; never one block marker alone
WellFormed(style) ==
    /\ style.single # <<>> \/ (style.bstart # <<>> /\ style.bend # <<>>)
    /\ (style.bstart = <<>>) <=> (style.bend = <<>>)

\* C13: the style resolved for every file is well-formed; an unrecognised or
\* absent extension gives `//` and no block markers, the CSS and the markup
\* family give no single-line prefix, the scripting family no block markers
C13_StyleWellFormed ==
    \A f \in Files :
        LET style == Style(ext[f])
        IN  /\ DOMAIN style = {"single", "bstart", "bend"}
            /\ WellFormed(style)
            /\ ext[f] \notin KnownExts =>
                  style = [single |-> Slashes, bstart |-> <<>>, bend |-> <<>>]
            /\ ext[f] \in CssExts \cup MarkupExts => style.single = <<>>
            /\ ext[f] \in ScriptExts => (style.bstart = <<>> /\ style.bend = <<>>)

\* C13 witness: a file of an unrecognised extension was cleaned of its `//`
\* comment and kept its block comment
C13_Witness ==
    \E f \in Files :
        /\ ext[f] \notin KnownExts
        /\ outcome[f] = "cleaned"
        /\ Lines(disk0[f]) = <<<<"a", " ", "/", "/", " ", "c">>,
                               <<"a", " ", "/", "*", " ", "c", " ", "*", "/">>>>
        /\ Lines(disk[f]) = <<<<"a">>, <<"a", " ", "/", "*", " ", "c", " ", "*", "/">>>>

(***************************************************************************)
(* C14.  Output format of a written file.                                  *)
(***************************************************************************)
\* the lines with one carriage return removed from the end of every line
\* but the last
StripInner(ls) ==
    [k \in 1..Len(ls) |-> IF k < Len(ls) THEN StripCr(ls[k]) ELSE ls[k]]

\* the lines without the empty lines at their end
RECURSIVE DropBlankTail(_)
DropBlankTail(ls) ==
    IF ls # <<>> /\ ls[Len(ls)] = <<>> THEN DropBlankTail(SubSeq(ls, 1, Len(ls) - 1))
    ELSE ls

\* the text ends with exactly one newline
OneFinalNewline(w) ==
    /\ w # <<>>
    /\ w[Len(w)] = "\n"
    /\ Len(w) >= 2 => w[Len(w) - 1] # "\n"

\* clean has just written the current file
JustWritten == pc = "walk" /\ cur \in Files /\ outcome[cur] = "cleaned"

\* C14, as claimed: the written text is the emitted lines joined by LF and
\* one newline after them, never two and never none, or the empty string
\* when no line was emitted
C14_OutputAsClaimed ==
    JustWritten =>
        LET w == writes[cur][1]
        IN  /\ w = IF new_lines = <<>> THEN <<>> ELSE JoinLines(new_lines) \o Lf
            /\ w = <<>> \/ OneFinalNewline(w)

\* C14 as amended: the written text is the emitted lines, less the empty
\* lines at their end and less a carriage return at the end of a line that
\* another line follows, joined by LF and followed by exactly one newline,
\* or the empty string when nothing is left
C14_OutputFormat ==
    /\ JustWritten =>
          LET body == JoinLines(DropBlankTail(StripInner(new_lines)))
          IN  writes[cur][1] = IF body = <<>> THEN <<>> ELSE body \o Lf
    /\ \A f \in Files : \A k \in 1..Len(writes[f]) :
          writes[f][k] = <<>> \/ OneFinalNewline(writes[f][k])

\* C14 witness: a file whose last emitted line is empty was written with one
\* final newline
C14_Witness ==
    /\ JustWritten
    /\ Len(new_lines) >= 2
    /\ new_lines[Len(new_lines)] = <<>>
    /\ OneFinalNewline(writes[cur][1])
    /\ disk[cur] = writes[cur][1]

(***************************************************************************)
(* C18.  First match decides the boundary: on a line scanned outside an    *)
(* open block comment, when the single-line prefix stands outside quotes   *)
(* before the first block-start marker, the marker belongs to the          *)
(* single-line comment: the line is cut at the prefix and the block        *)
(* comment flag stays false for the following lines.                       *)
(***************************************************************************)
\* the single-line prefix stands free before the first block-start marker
SingleBeforeBlock(line, style) ==
    /\ HasBlocks(style)
    /\ FreeAt(line, style.single) # {}
    /\ Find(line, style.bstart) > Min(FreeAt(line, style.single))

\* C18: a block-start marker that follows a free single-line prefix does not
\* set the block-comment flag, and the line is cut at the prefix
C18_FirstMatchDecides ==
    (ScannedFresh /\ SingleBeforeBlock(last.line, CurStyle)) =>
        /\ ~flags.blk
        /\ last.emit = CodeLine(last.line, CurStyle.single)

(***************************************************************************)
(* C19.  Normal scanning resumes after a terminator: on a line met inside  *)
(* an open block comment that holds the terminator, the text after the     *)
(* terminator is scanned as a line met outside a block comment is: what is *)
(* emitted and the block-comment flag after the line are those of that     *)
(* text scanned on its own.                                                *)
(***************************************************************************)
\* the last iteration met the terminator of the open block comment
ClosingLine ==
    /\ pc = "scan" /\ last.valid /\ HasBlocks(CurStyle)
    /\ last.pre.blk
    /\ ~HeaderLine(last.line, CurStyle)
    /\ Find(last.line, CurStyle.bend) # 0

AfterTerminator ==
    Tail_(last.line, Find(last.line, CurStyle.bend) + Len(CurStyle.bend))

\* C19: the text after the terminator of a closing line is scanned as a
\* fresh line is
C19_ScanResumes ==
    ClosingLine =>
        LET r == BlockAndCode(AfterTerminator, CurStyle, [last.pre EXCEPT !.blk = FALSE])
        IN  /\ last.emit = r.emit
            /\ flags.blk = r.st.blk

(***************************************************************************)
(* C20.  Carry flags return to false on well-formed input.                 *)
(***************************************************************************)
\* a block comment is open after the line, when open tells whether one is
\* open before it; a block-start marker inside a quoted span opens none
OpenAfterLine(line, style, open) ==
    IF open
    THEN LET t == Find(line, style.bend)
         IN  IF t = 0 THEN TRUE
             ELSE CodeText(Tail_(line, t + Len(style.bend)), style, 1).blk
    ELSE CodeText(line, style, 1).blk

RECURSIVE OpenAfter(_, _, _)
OpenAfter(ls, style, k) ==
    IF k = 0 THEN FALSE
    ELSE OpenAfterLine(ls[k], style, OpenAfter(ls, style, k - 1))

\* every block comment opened outside strings is closed, and every
\* triple-quoted region is closed by the delimiter that opened it
\* (in a file with block markers every quote is closed on its line, and no
\* path header stands below the first line)
WellFormedInput(ls, e) ==
    /\ HasBlocks(Style(e)) =>
          /\ ~OpenAfter(ls, Style(e), Len(ls))
          /\ \A k \in 1..Len(ls) : OpenQuote(ls[k], Len(ls[k]) + 1) = ""
          /\ \A k \in 2..Len(ls) : ~HeaderLine(ls[k], Style(e))
    /\ IsPython(e) => PyModeAfter(ls, Len(ls)) = "code"

\* C20: after the last line of a well-formed file the three carry flags are
\* false
C20_FlagsReturnToFalse ==
    (/\ pc = "scan" /\ line_num = Len(original_lines)
     /\ WellFormedInput(original_lines, ext[cur])) => flags = NoFlags

(***************************************************************************)
(* C15.  Add/remove round trip: `add` and then `remove`, run with the same *)
(* arguments, leave every matched file that had no path header with its    *)
(* original content, up to leading and trailing whitespace.                *)
(***************************************************************************)
\* `add` was run, then `remove`
AddThenRemove ==
    /\ Len(hist) = 2
    /\ hist[1].cmd = "add"
    /\ hist[2].cmd = "remove"

\* file f is matched by the walk: its extension is asked for and it lies
\* within the depth, if one is given
Matching(f) == ext[f] \in args.exts

WithinDepth(f) == ~args.has_depth \/ Len(path[f]) <= args.depth

\* the first line of the text is no path header of the style of e
NoHeader(text, e) ==
    \/ Lines(text) = <<>>
    \/ ~StartsWith(Trim(Lines(text)[1]), get_comment_style(e).prefix \o PathWord)

\* C15: after add and then remove, a matched file that had no header and
\* that remove went through holds its original content, up to leading and
\* trailing whitespace
C15_RoundTrip ==
    AddThenRemove =>
        \A f \in Files :
            (/\ Matching(f) /\ WithinDepth(f)
             /\ NoHeader(hist[1].disk[f], ext[f])
             /\ outcome[f] \in {"removed", "skipped"})
                => Trim(disk[f]) = Trim(hist[1].disk[f])

(***************************************************************************)
(* C16.  Header path with --up: the first line `add` writes to a file is   *)
(* `{prefix} Path:{p}`, or `{prefix} Path: {p} {suffix}` for a style with  *)
(* a suffix, p being the path of the file from the directory args.up       *)
(* levels above the target directory, or from the root when the target     *)
(* directory is less deep than that.                                       *)
(***************************************************************************)
\* the names of the target directory that are part of p
ClimbedNames ==
    LET n == Len(args.directory)
        k == IF args.up < n THEN args.up ELSE n
    IN  SubSeq(args.directory, n - k + 1, n)

RelativePath(f) ==
    JoinWith(ClimbedNames \o SubSeq(path[f], 1, Len(path[f]) - 1) \o <<FileName(f)>>,
             <<"/">>)

ExpectedHeader(f) ==
    LET cs == get_comment_style(ext[f])
    IN  IF cs.suffix = <<>> THEN cs.prefix \o PathWord \o RelativePath(f)
        ELSE cs.prefix \o PathWord \o <<" ">> \o RelativePath(f) \o <<" ">> \o cs.suffix

\* `add` has written file f in the run that is going on or is over
AddWrote(f) == outcome[f] \in {"added", "replaced"}

FirstDisk(f) == IF hist = <<>> THEN disk[f] ELSE hist[1].disk[f]

\* C17: only matching files within the depth are processed, all of them
\* when the command returns Ok, and a deeper file keeps its bytes
C17_DepthLimit ==
    \A f \in Files :
        /\ outcome[f] # "none" => (Matching(f) /\ WithinDepth(f))
        /\ (pc = "done" /\ Matching(f) /\ WithinDepth(f)) => outcome[f] # "none"
        /\ ~WithinDepth(f) =>
              /\ disk[f] = FirstDisk(f)
              /\ reads[f] = 0
              /\ writes[f] = <<>>

\* C17 witness: with --depth 1 a command is over; it wrote a file of the
\* target directory and left a matching file one level down as it was
C17_Witness ==
    /\ pc = "done"
    /\ args.has_depth /\ args.depth = 1
    /\ \E f, g \in Files :
          /\ Len(path[f]) = 1 /\ writes[f] # <<>> /\ disk[f] # FirstDisk(f)
          /\ Len(path[g]) = 2 /\ Matching(g) /\ outcome[g] = "none"
          /\ disk[g] = FirstDisk(g)

(***************************************************************************)
(* C21.  Unterminated block comment: when a file ends while a block        *)
(* comment opened on an earlier line is still open, the lines after the    *)
(* opening line are in the output.                                         *)
(***************************************************************************)
\* the block-comment flag after the first k lines of the current file
BlkAfter(k) == FlagsAfter(SubSeq(original_lines, 1, k), ext[cur], 1, NoFlags).blk

\* the file has been scanned to its end and the block comment is open
EndsInOpenComment ==
    /\ pc = "scan" /\ last.valid
    /\ line_num = Len(original_lines)
    /\ flags.blk

\* the line on which the comment that is open at the end was opened
OpeningLine ==
    LET opens == {k \in 1..Len(original_lines) : ~BlkAfter(k - 1) /\ BlkAfter(k)}
    IN  CHOOSE k \in opens : \A j \in opens : j <= k

\* C21: every non-blank line after the opening line of a block comment that
\* is never closed is a line of the output
C21_UnterminatedPreserved ==
    EndsInOpenComment =>
        \A k \in (OpeningLine + 1)..Len(original_lines) :
            TrimEnd(original_lines[k]) # <<>> =>
                \E j \in 1..Len(new_lines) :
                    new_lines[j] \in {original_lines[k], TrimEnd(original_lines[k])}

(***************************************************************************)
(* C22.  Triple-quote toggle rule of a .py file.                           *)
(***************************************************************************)
\* the occurrences of the delimiter m in the line from position i on, read
\* from left to right without overlap
RECURSIVE Occurrences(_, _, _)
Occurrences(line, m, i) ==
    IF i > Len(line) THEN 0
    ELSE IF OccursAt(line, i, m) THEN 1 + Occurrences(line, m, i + Len(m))
    ELSE Occurrences(line, m, i + 1)

Odd(n) == n % 2 = 1

\* the last iteration scanned a line of a .py file that is no path header
PyLine ==
    /\ pc = "scan" /\ last.valid /\ IsPython(ext[cur])
    /\ ~HeaderLine(last.line, CurStyle)

\* C22: each triple flag flips iff its delimiter occurs an odd number of
\* times; the line is emitted verbatim if a triple flag was set before it or
\* it holds a delimiter, and goes through comment stripping otherwise
C22_TripleQuoteToggle ==
    PyLine =>
        LET nd == Occurrences(last.line, TripleDouble, 1)
            ns == Occurrences(last.line, TripleSingle, 1)
        IN  /\ (flags.td # last.pre.td) <=> Odd(nd)
            /\ (flags.ts # last.pre.ts) <=> Odd(ns)
            /\ flags.blk = last.pre.blk
            /\ IF last.pre.td \/ last.pre.ts \/ nd > 0 \/ ns > 0
               THEN last.emit = <<last.line>>
               ELSE last.emit = CodeLine(last.line, Hash)

\* C22 witness: outside every region a line with two delimiters and a comment
\* was emitted verbatim and flipped no flag
C22_Witness ==
    /\ PyLine
    /\ last.pre = NoFlags /\ flags = NoFlags
    /\ Occurrences(last.line, TripleDouble, 1) = 2
    /\ Find(last.line, Hash) # 0
    /\ last.emit = <<last.line>>

(***************************************************************************)
(* C23.  Quote-kind guard of clean_line_of_code: a quote of the other kind *)
(* inside an open quoted span is content.  On a line that holds such a     *)
(* quote, a comment prefix inside a string is not taken as the start of a  *)
(* comment, and the first prefix outside the strings is.                   *)
(***************************************************************************)
\* position j holds a quote inside an open span of the other kind
NestedQuoteAt(line, j) ==
    /\ line[j] \in {"'", "\""}
    /\ ~Escaped(line, j)
    /\ OpenQuote(line, j) \notin {"", line[j]}

HasNestedQuote(line) == \E j \in 1..Len(line) : NestedQuoteAt(line, j)

ExampleFormatKept ==
    <<"p", "r", "i", "n", "t", "(", "f", "\"", "{", "d", "[", "'", "k", "'", "]", "}",
      "\"", ")">>

\* C23: on a line with a quote nested in a span of the other kind the prefix
\* is detected at no position inside a string and at the first position
\* outside the strings; `print(f"{d['k']}") # c` loses only `# c`
C23_QuoteKindGuard ==
    /\ (PlainCodeLine /\ HasNestedQuote(last.line)) =>
          LET p == DetectedAt(last.line, CurStyle)
              F == FreeAt(last.line, CurStyle.single)
          IN  /\ p # 0 => OpenQuote(last.line, p) = ""
              /\ p = IF F = {} THEN 0 ELSE Min(F)
              /\ last.emit = CodeLine(last.line, CurStyle.single)
    /\ (pc = "scan" /\ last.valid /\ last.line = ExampleFormat /\ IsPython(ext[cur]))
          => last.emit = <<ExampleFormatKept>>

\* C23 witness: a comment was stripped after a string that holds one quote of
\* the other kind
C23_Witness ==
    /\ PlainCodeLine
    /\ last.line = ExampleApostrophe
    /\ HasNestedQuote(last.line)
    /\ last.emit = <<SubSeq(ExampleApostrophe, 1, 6)>>

(***************************************************************************)
(* C24.  Shape of the emitted lines.                                       *)
(***************************************************************************)
\* a is b with some characters left out
RECURSIVE IsSubsequence(_, _)
IsSubsequence(a, b) ==
    IF a = <<>> THEN TRUE
    ELSE IF b = <<>> THEN FALSE
    ELSE IF a[1] = b[1] THEN IsSubsequence(Tail_(a, 2), Tail_(b, 2))
    ELSE IsSubsequence(a, Tail_(b, 2))

\* the lines out come, in order, from different lines of inp, each from a
\* line it is made of
RECURSIVE InOrderFrom(_, _)
InOrderFrom(out, inp) ==
    IF out = <<>> THEN TRUE
    ELSE IF inp = <<>> THEN FALSE
    ELSE \/ IsSubsequence(out[1], inp[1]) /\ InOrderFrom(Tail_(out, 2), Tail_(inp, 2))
         \/ InOrderFrom(out, Tail_(inp, 2))

\* the delimiter m occurs so many times in the first k lines, path headers
\* left aside
RECURSIVE OccurrencesBefore(_, _)
OccurrencesBefore(m, k) ==
    IF k = 0 THEN 0
    ELSE OccurrencesBefore(m, k - 1)
         + IF HeaderLine(original_lines[k], CurStyle) THEN 0
           ELSE Occurrences(original_lines[k], m, 1)

\* line k is a docstring line: a line of a .py file that holds a triple
\* delimiter or follows an odd number of them
DocstringLine(k) ==
    /\ IsPython(ext[cur])
    /\ \/ Occurrences(original_lines[k], TripleDouble, 1) > 0
       \/ Occurrences(original_lines[k], TripleSingle, 1) > 0
       \/ Odd(OccurrencesBefore(TripleDouble, k - 1))
       \/ Odd(OccurrencesBefore(TripleSingle, k - 1))

\* line k may be copied verbatim: a path header or a docstring line
VerbatimKind(k) == HeaderLine(original_lines[k], CurStyle) \/ DocstringLine(k)

\* a non-empty line that ends with no whitespace
Tight(l) == l # <<>> /\ l[Len(l)] \notin WS

\* the line is blank, or nothing but a single-line comment
BlankOrComment(line) ==
    \/ Trim(line) = <<>>
    \/ CurStyle.single # <<>> /\ StartsWith(Trim(line), CurStyle.single)

\* C24: after every processed prefix each input line has given at most one
\* output line, the output lines come from the input lines in order, each is
\* a verbatim header or docstring line or is non-empty without trailing
\* whitespace, and a blank or fully commented line gives nothing
C24_EmittedShape ==
    pc = "scan" =>
        /\ Len(new_lines) <= line_num
        /\ InOrderFrom(new_lines, SubSeq(original_lines, 1, line_num))
        /\ \A j \in 1..Len(new_lines) :
              \/ Tight(new_lines[j])
              \/ \E k \in 1..line_num :
                    new_lines[j] = original_lines[k] /\ VerbatimKind(k)
        /\ last.valid =>
              /\ Len(last.emit) <= 1
              /\ last.emit # <<>> => new_lines[Len(new_lines)] = last.emit[1]
              /\ (/\ BlankOrComment(last.line)
                  /\ ~HeaderLine(last.line, CurStyle)
                  /\ ~DocstringLine(line_num))
                    => last.emit = <<>>

\* C24 witness: three lines gave one output line, the blank line and the
\* comment line between code leaving no placeholder
C24_Witness ==
    /\ pc = "scan" /\ line_num = 3
    /\ Len(new_lines) = 1
    /\ Tight(new_lines[1])
    /\ \E k \in 1..3 : original_lines[k] = <<>>
    /\ \E k \in 1..3 : Tight(original_lines[k]) /\ BlankOrComment(original_lines[k])
    /\ ~HeaderLine(new_lines[1], CurStyle)

(***************************************************************************)
(* C25.  Quote state does not carry across lines.                          *)
(***************************************************************************)
\* the line ends inside a quote it opened
EndsInQuote(line) == OpenQuote(line, Len(line) + 1) # ""

\* the last iteration scanned a code line of a non-Python file, and the line
\* before it ended inside a quote
AfterOpenQuote ==
    /\ PlainCodeLine
    /\ ~IsPython(ext[cur])
    /\ line_num >= 2
    /\ ~HeaderLine(original_lines[line_num - 1], CurStyle)
    /\ EndsInQuote(original_lines[line_num - 1])

\* C25: a line that follows a line with an unterminated quote is cut at its
\* first comment prefix outside its own quotes, as the line alone would be
C25_QuotesDoNotCarry ==
    AfterOpenQuote => last.emit = CodeLine(last.line, CurStyle.single)

\* C25 witness: after a line that left a double quote open, the comment that
\* follows a closed string of the next line was stripped
C25_Witness ==
    /\ AfterOpenQuote
    /\ last.line = Pool_more_closed
    /\ last.emit = <<SubSeq(Pool_more_closed, 1, 3)>>

(***************************************************************************)
(* C26.  A path-header line is transparent to the scanner.                 *)
(***************************************************************************)
\* the last iteration scanned a path-header line
HeaderScanned == pc = "scan" /\ last.valid /\ HeaderLine(last.line, CurStyle)

\* the marker m occurs in the line
OccursIn(line, m) == \E i \in 1..Len(line) : OccursAt(line, i, m)

\* C26: a path-header line is pushed unchanged and leaves the three carry
\* flags as it found them, whatever they are and whatever the line holds
C26_HeaderTransparent ==
    HeaderScanned => /\ last.emit = <<last.line>>
                     /\ flags = last.pre

\* C26 witness: inside an open docstring a path header that holds a docstring
\* delimiter was pushed unchanged and left the docstring open
C26_Witness ==
    /\ HeaderScanned
    /\ last.pre.td /\ flags.td
    /\ OccursIn(last.line, TripleDouble)
    /\ last.emit = <<last.line>>

(***************************************************************************)
(* C27.  The two docstring flags are mutually exclusive.                   *)
(***************************************************************************)
\* C27, as claimed: while a .py file is scanned at most one of the two
\* docstring flags is set after every line
C27_DocstringFlagsExclusive ==
    (pc = "scan" /\ IsPython(ext[cur])) => ~(flags.td /\ flags.ts)

(***************************************************************************)
(* C28.  Single header under any command sequence.                         *)
(***************************************************************************)
\* the numbers of the lines of a text that begin with `{prefix} Path:`
HeaderLines(text, e) ==
    {k \in 1..Len(Lines(text)) :
        StartsWith(Trim(Lines(text)[k]), get_comment_style(e).prefix \o PathWord)}

\* the command that is running or was run last
Command == IF hist = <<>> THEN "none" ELSE hist[Len(hist)].cmd

\* C28, as claimed: a file that had no path-header line when the first command
\* started has at most one afterwards, on its first line; add without --force
\* leaves a file with a header as it found it, and so does remove a file
\* without one
C28_SingleHeader ==
    \A f \in Files :
        (hist # <<>> /\ HeaderLines(hist[1].disk[f], ext[f]) = {}) =>
            /\ HeaderLines(disk[f], ext[f]) \subseteq {1}
            /\ (Command = "add" /\ ~args.force /\ HeaderLines(disk0[f], ext[f]) # {})
                  => disk[f] = disk0[f] /\ writes[f] = <<>>
            /\ (Command = "remove" /\ HeaderLines(disk0[f], ext[f]) = {})
                  => disk[f] = disk0[f] /\ writes[f] = <<>>

(***************************************************************************)
(* C29.  Tree building.                                                    *)
(***************************************************************************)
\* the entries, in the order of their lines
Entries == 2..Len(nodes)

\* node n is a child of node p
ChildOf(n, p) == \E i \in 1..Len(nodes[p].children) : nodes[p].children[i] = n

\* the nearest entry before n with a level strictly smaller than that of n,
\* the root when there is none
NearestSmaller(n) ==
    LET S == {m \in Entries : m < n /\ nodes[m].level < nodes[n].level}
    IN  IF S = {} THEN Root ELSE CHOOSE m \in S : \A k \in S : k <= m

\* C29: the stack is never empty and the root stays at its bottom; the stack
\* is the chain from the root to the entry added last, with strictly
\* increasing levels above the root; every entry is a child of the nearest
\* entry before it with a strictly smaller level, or of the root, of no other
\* node, and was appended after the children that node already had
C29_TreeBuilding ==
    /\ stack # <<>>
    /\ stack[1] = Root
    /\ \A i \in 2..Len(stack) : stack[i] \in Entries /\ ChildOf(stack[i], stack[i - 1])
    /\ \A i \in 3..Len(stack) : nodes[stack[i - 1]].level < nodes[stack[i]].level
    /\ Entries # {} => stack[Len(stack)] = Len(nodes)
    /\ \A n \in Entries : \A p \in 1..Len(nodes) : ChildOf(n, p) <=> p = NearestSmaller(n)
    /\ \A p \in 1..Len(nodes) : \A i, j \in 1..Len(nodes[p].children) :
          i < j => nodes[p].children[i] < nodes[p].children[j]

\* C29 witness: of three entries the third, less indented than the second,
\* popped it and became the second child of the first
C29_Witness ==
    /\ bpc = "built"
    /\ Len(nodes) = 4
    /\ nodes[3].level > nodes[4].level
    /\ nodes[2].children = <<3, 4>>
    /\ nodes[Root].children = <<2>>
    /\ stack = <<Root, 2, 4>>

(***************************************************************************)
(* C30.  parse_line on non-blank lines.                                    *)
(***************************************************************************)
\* the number of leading characters of a line that are whitespace or
\* tree-drawing characters
Leading(line) ==
    CHOOSE n \in 0..Len(line) :
        /\ \A i \in 1..n : line[i] \in WS \cup TreeDrawing
        /\ n < Len(line) => line[n + 1] \notin WS \cup TreeDrawing

\* C30, as claimed: for a non-blank line parse_line returns, with the level
\* the quotient of the number of leading characters by the indent width and
\* the name the line without those characters
C30_ParseLineTotal ==
    (parsed.valid /\ Trim(parsed.line) # <<>>) =>
        /\ parsed.result.kind = "Some"
        /\ indent_width # 0 =>
              parsed.result.level = Leading(parsed.line) \div indent_width
        /\ parsed.result.name = Tail_(parsed.line, Leading(parsed.line) + 1)

=============================================================================
